---- MODULE Spec2Model ----
(***************************************************************************)
(* UCF protocol core: the digest binder (digest32), the record hash-chain  *)
(* (record_digest_from_components), the TEMPORARY_VRF engine, the proof    *)
(* receipt issuer, the canonical encoder and the fixture files.            *)
(*                                                                         *)
(* A byte string is a sequence of items.  An item is either a concrete     *)
(* byte <<"u8", n>> with n in 0..255, or a block that stands for the whole *)
(* output of a cryptographic primitive on a given input:                   *)
(*   <<"blake3", pre>>       the 32 bytes of BLAKE3(pre)                   *)
(*   <<"sha512", pre>>       the 64 bytes of SHA-512(pre)                  *)
(*   <<"ed25519", sk, msg>>  the 64 bytes of the Ed25519 signature         *)
(*   <<"ed25519pk", sk>>     the 32 bytes of the Ed25519 public key        *)
(* Two blocks are equal exactly when primitive and input are equal: the    *)
(* primitives are taken to be collision free, and an output is never a     *)
(* caller-chosen constant.  Everything else (order of concatenation,       *)
(* lengths, separators, byte order) is computed on the items.              *)
(***************************************************************************)
EXTENDS Integers, Sequences, FiniteSets, TLC

VARIABLES
    caller,                      \* who calls digest32: any library user, or the fixture tools
    call, last,                  \* digest32: the call just made, the one before
    receipt, receipt_last,       \* issue_proof_receipt: the call just made, the one before
    chain, alt, tamper_at,       \* a record chain, its tampered copy, first changed position
    engine, vrf, vrf_last, recomputed, \* VrfEngine, eval_record_vrf calls, the test's recomputation
    threads,                     \* the threads that share the engine: each one's call, position and locals
    message, wire, decoded, reencoded, \* a typed record, its canonical bytes, decode's result, the re-encoding
    testvectors, verdict         \* the files under testvectors/, the outcome of the last fixture case run

digest_vars == << caller, call, last >>
receipt_vars == << receipt, receipt_last >>
chain_vars == << chain, alt, tamper_at >>
vrf_vars == << engine, vrf, vrf_last, recomputed, threads >>

wire_vars == << message, wire, decoded, reencoded >>

fixture_vars == << testvectors, verdict >>

vars == << digest_vars, receipt_vars, chain_vars, vrf_vars, wire_vars, fixture_vars >>

\* what the actions of one component leave alone
not_digest_vars == << receipt_vars, chain_vars, vrf_vars, wire_vars, fixture_vars >>
not_receipt_vars == << digest_vars, chain_vars, vrf_vars, wire_vars, fixture_vars >>
not_chain_vars == << digest_vars, receipt_vars, vrf_vars, wire_vars, fixture_vars >>
not_vrf_vars == << digest_vars, receipt_vars, chain_vars, wire_vars, fixture_vars >>
not_fixture_vars == << digest_vars, receipt_vars, chain_vars, vrf_vars, wire_vars >>
not_wire_vars == << digest_vars, receipt_vars, chain_vars, vrf_vars, fixture_vars >>

None == << >>

\* nothing has been called, built or written yet
IdleDigest == caller = "library" /\ call = None /\ last = None

IdleReceipt == receipt = None /\ receipt_last = None

IdleChain == chain = << >> /\ alt = << >> /\ tamper_at = 0

IdleVrf ==
    engine = None /\ vrf = None /\ vrf_last = None /\ recomputed = None /\ threads = None

IdleWire == message = None /\ wire = None /\ decoded = None /\ reencoded = None

IdleFixtures == testvectors = None /\ verdict = None

(* Byte strings *)

U8(n) == << "u8", n >>

\* &str::as_bytes / a literal byte array: the code units, one concrete byte each
Bytes(s) == [ i \in 1..Len(s) |-> U8(s[i]) ]

\* [v; n]
Repeat(v, n) == [ i \in 1..n |-> U8(v) ]

\* the number of bytes an item stands for
ItemLen(it) ==
    CASE it[1] = "u8" -> 1
      [] it[1] = "blake3" -> 32
      [] it[1] = "sha512" -> 64
      [] it[1] = "ed25519" -> 64
      [] it[1] = "ed25519pk" -> 32
      [] it[1] = "slice" -> it[3]

RECURSIVE ByteLen(_)
ByteLen(bs) == IF bs = << >> THEN 0 ELSE ItemLen(Head(bs)) + ByteLen(Tail(bs))

IsPrefix(p, s) == Len(p) <= Len(s) /\ SubSeq(s, 1, Len(p)) = p

\* all sequences over alphabet of length lo..hi
SeqsOf(alphabet, lo, hi) == UNION { [ 1..n -> alphabet ] : n \in lo..hi }


(* blake3::Hasher: update absorbs, finalize yields the 32 output bytes *)

HasherNew == << >>

HasherUpdate(hasher, data) == hasher \o data

HasherFinalize(hasher) == << << "blake3", hasher >> >>

\* the input a BLAKE3 digest was computed over
Preimage(digest) == digest[1][2]


(* Digest binder *)

digest32_prefixed(domain, schema_id, schema_version, bytes) ==
    HasherFinalize(
        HasherUpdate(
            HasherUpdate(
                HasherUpdate(
                    HasherUpdate(HasherUpdate(HasherNew, << U8(Len(domain)) >>), Bytes(domain)),
                    Bytes(schema_id)),
                Bytes(schema_version)),
            bytes))

digest32_nodomain(domain, schema_id, schema_version, bytes) ==
    HasherFinalize(
        HasherUpdate(
            HasherUpdate(HasherUpdate(HasherNew, Bytes(schema_id)), Bytes(schema_version)),
            bytes))

digest32(domain, schema_id, schema_version, bytes) ==
    HasherFinalize(
        HasherUpdate(
            HasherUpdate(
                HasherUpdate(HasherUpdate(HasherNew, Bytes(domain)), Bytes(schema_id)),
                Bytes(schema_version)),
            bytes))

(* Text: a character is << "ch", code >> *)

Ch(c) == << "ch", c >>

\* the lowercase hex digit of a value below 16
HexDigit(d) == Ch(IF d < 10 THEN 48 + d ELSE 87 + d)

\* hex::encode: two lowercase digits per byte; the text of a byte string that
\* holds hash outputs or records is one "hex" item per item
hex_encode(data) ==
    IF \A i \in 1..Len(data) : data[i][1] = "u8"
    THEN [ i \in 1..(2 * Len(data)) |->
             IF i % 2 = 1
             THEN HexDigit(data[(i + 1) \div 2][2] \div 16)
             ELSE HexDigit(data[i \div 2][2] % 16) ]
    ELSE [ i \in 1..Len(data) |-> << "hex", data[i] >> ]


(* Record hash-chain *)

record_digest_from_components_prev_first(verified_fields_digest, prev_record_digest, commit_id) ==
    HasherFinalize(
        HasherUpdate(
            HasherUpdate(HasherUpdate(HasherNew, prev_record_digest), verified_fields_digest),
            commit_id))

record_digest_from_components_no_commit(verified_fields_digest, prev_record_digest, commit_id) ==
    HasherFinalize(
        HasherUpdate(HasherUpdate(HasherNew, verified_fields_digest), prev_record_digest))

record_digest_from_components_no_prev(verified_fields_digest, prev_record_digest, commit_id) ==
    HasherFinalize(
        HasherUpdate(HasherUpdate(HasherNew, verified_fields_digest), commit_id))

record_digest_from_components(verified_fields_digest, prev_record_digest, commit_id) ==
    HasherFinalize(
        HasherUpdate(
            HasherUpdate(HasherUpdate(HasherNew, verified_fields_digest), prev_record_digest),
            commit_id))


(* TEMPORARY_VRF engine *)

\* b"UCF:VRF:EXPERIENCE_RECORD"
VRF_DOMAIN ==
    Bytes(<< 85, 67, 70, 58, 86, 82, 70, 58, 69, 88, 80, 69, 82, 73, 69, 78, 67, 69, 95, 82, 69, 67, 79, 82, 68 >>)

\* b"UCF:VRF:DEV"
VRF_DEV_SEED_LABEL ==
    Bytes(<< 85, 67, 70, 58, 86, 82, 70, 58, 68, 69, 86 >>)

\* "TEMPORARY_VRF"
TEMPORARY_VRF_LABEL ==
    << 84, 69, 77, 80, 79, 82, 65, 82, 89, 95, 86, 82, 70 >>

\* the first n bytes of u64::to_le_bytes: least significant byte first
RECURSIVE le_bytes(_, _)
le_bytes(value, n) ==
    IF n = 0 THEN << >> ELSE << U8(value % 256) >> \o le_bytes(value \div 256, n - 1)

to_le_bytes(value) == le_bytes(value, 8)

\* ed25519: the signature of message under the signing key, and the public key
Sign(signing_key, msg) == << << "ed25519", signing_key, msg >> >>

VerifyingKey(signing_key) == << << "ed25519pk", signing_key >> >>

\* Sha512::digest
Sha512(data) == << << "sha512", data >> >>

new_dev_epoch_unbound(epoch_id) ==
    LET seed == HasherFinalize(HasherUpdate(HasherNew, VRF_DEV_SEED_LABEL))
    IN  [ signing_key |-> seed,
          current |-> [ key_id |-> [ i \in 1..Len(TEMPORARY_VRF_LABEL) |->
                                       Ch(TEMPORARY_VRF_LABEL[i]) ]
                                       \o << Ch(58) >>
                                       \o hex_encode(<< << "slice", VerifyingKey(seed)[1], 8 >> >>),
                        epoch_id |-> epoch_id,
                        vrf_pk |-> VerifyingKey(seed),
                        vrf_sk |-> seed ] ]

\* the first 8 bytes of the 32-byte public key are one item << "slice", key, 8 >>
new_dev(epoch_id) ==
    LET seed == HasherFinalize(
                    HasherUpdate(HasherUpdate(HasherNew, VRF_DEV_SEED_LABEL),
                                 to_le_bytes(epoch_id)))
    IN  [ signing_key |-> seed,
          current |-> [ key_id |-> [ i \in 1..Len(TEMPORARY_VRF_LABEL) |->
                                       Ch(TEMPORARY_VRF_LABEL[i]) ]
                                       \o << Ch(58) >>
                                       \o hex_encode(<< << "slice", VerifyingKey(seed)[1], 8 >> >>),
                        epoch_id |-> epoch_id,
                        vrf_pk |-> VerifyingKey(seed),
                        vrf_sk |-> seed ] ]

current_epoch(eng) == eng.current.epoch_id

vrf_public_key(eng) == eng.current.vrf_pk

build_message_no_record(prev_record_digest, record_digest, charter_digest, profile_digest, epoch_id) ==
    VRF_DOMAIN \o prev_record_digest \o Bytes(charter_digest) \o profile_digest
        \o to_le_bytes(epoch_id)

build_message_no_epoch(prev_record_digest, record_digest, charter_digest, profile_digest, epoch_id) ==
    VRF_DOMAIN \o prev_record_digest \o record_digest \o Bytes(charter_digest)
        \o profile_digest

build_message_profile_first(prev_record_digest, record_digest, charter_digest, profile_digest, epoch_id) ==
    VRF_DOMAIN \o prev_record_digest \o record_digest \o profile_digest
        \o Bytes(charter_digest) \o to_le_bytes(epoch_id)

build_message(prev_record_digest, record_digest, charter_digest, profile_digest, epoch_id) ==
    VRF_DOMAIN \o prev_record_digest \o record_digest \o Bytes(charter_digest)
        \o profile_digest \o to_le_bytes(epoch_id)

digest_signature_zero(signature) == Repeat(0, 32)

digest_signature(signature) ==
    HasherFinalize(HasherUpdate(HasherNew, Sha512(signature)))

eval_record_vrf_chained(eng, prev_record_digest, record_digest, charter_digest, profile_digest, epoch_id) ==
    digest_signature(
        Sign(eng.signing_key,
             build_message(prev_record_digest, record_digest, charter_digest,
                           profile_digest, epoch_id)
                 \o (IF vrf = None THEN << >> ELSE vrf.tag)))

eval_record_vrf(eng, prev_record_digest, record_digest, charter_digest, profile_digest, epoch_id) ==
    digest_signature(
        Sign(eng.signing_key,
             build_message(prev_record_digest, record_digest, charter_digest,
                           profile_digest, epoch_id)))


(* Proof-receipt issuer *)

\* Option<T>: None is << >>, Some(x) is << x >>
Some(x) == << x >>

ProofReceiptIssuer_new(vrf_engine) == [ vrf_engine |-> vrf_engine ]

\* the ReceiptStatus enumeration and the i32 each variant is cast to
ReceiptStatus == [ Unspecified |-> 0, Accepted |-> 1, Rejected |-> 2, Pending |-> 3 ]

issue_proof_receipt_over_receipt_digest(issuer, inputs) ==
    [ status |-> ReceiptStatus[inputs.status],
      receipt_digest |-> Some([ value |-> inputs.receipt_digest ]),
      validator |-> Some(inputs.validator),
      vrf_digest |-> Some([ value |-> eval_record_vrf(
                                          issuer.vrf_engine,
                                          inputs.prev_record_digest,
                                          inputs.receipt_digest,
                                          inputs.charter_digest,
                                          inputs.profile_digest,
                                          inputs.epoch_id) ]) ]

issue_proof_receipt_rejected_untagged(issuer, inputs) ==
    [ status |-> ReceiptStatus[inputs.status],
      receipt_digest |-> Some([ value |-> inputs.receipt_digest ]),
      validator |-> Some(inputs.validator),
      vrf_digest |->
          IF inputs.status = "Rejected"
          THEN None
          ELSE Some([ value |-> eval_record_vrf(
                                    issuer.vrf_engine,
                                    inputs.prev_record_digest,
                                    record_digest_from_components(
                                        inputs.verified_fields_digest,
                                        inputs.prev_record_digest,
                                        inputs.commit_id),
                                    inputs.charter_digest,
                                    inputs.profile_digest,
                                    inputs.epoch_id) ]) ]

issue_proof_receipt(issuer, inputs) ==
    LET record_digest == record_digest_from_components(
                             inputs.verified_fields_digest,
                             inputs.prev_record_digest,
                             inputs.commit_id)
        vrf_digest == eval_record_vrf(
                          issuer.vrf_engine,
                          inputs.prev_record_digest,
                          record_digest,
                          inputs.charter_digest,
                          inputs.profile_digest,
                          inputs.epoch_id)
    IN  [ status |-> ReceiptStatus[inputs.status],
          receipt_digest |-> Some([ value |-> inputs.receipt_digest ]),
          validator |-> Some(inputs.validator),
          vrf_digest |-> Some([ value |-> vrf_digest ]) ]

(* Digest binder: calls with arbitrary short strings *)

\* bound on the length of the domain and schema_id strings the calls are drawn from
MaxStrLen == 2

\* domains over "a", "b"; schema ids over "b"; versions "1", "11"; message bytes
\* empty or "1": every boundary between two adjacent parts can be moved
DomainStrs == SeqsOf({ 97, 98 }, 1, MaxStrLen)

SchemaStrs == SeqsOf({ 98 }, 1, MaxStrLen)

VersionStrs == { << 49 >>, << 49, 49 >> }

ByteStrs == { << >>, Bytes(<< 49 >>) }

Triple(c) == << c.domain, c.schema_id, c.schema_version >>

Digest32(domain, schema_id, schema_version, bytes) ==
    /\ caller = "library"
    /\ call' = [ domain |-> domain, schema_id |-> schema_id,
                 schema_version |-> schema_version, bytes |-> bytes,
                 digest |-> digest32(domain, schema_id, schema_version, bytes) ]
    /\ last' = call
    /\ UNCHANGED caller
    /\ UNCHANGED not_digest_vars

\* C2: digest32 hashes exactly domain || schema_id || schema_version || bytes, in
\* that order, nothing before, between or after the four parts.
C2_DigestPreimage ==
    call # None =>
        /\ call.digest = << << "blake3",
               Bytes(call.domain) \o Bytes(call.schema_id)
                   \o Bytes(call.schema_version) \o call.bytes >> >>
        /\ ByteLen(Preimage(call.digest)) =
               Len(call.domain) + Len(call.schema_id)
                   + Len(call.schema_version) + Len(call.bytes)
        /\ ByteLen(call.digest) = 32

C2_Witness ==
    /\ call # None
    /\ call.domain = << 97, 98 >> /\ call.schema_id = << 98 >>
    /\ call.schema_version = << 49, 49 >> /\ call.bytes = Bytes(<< 49 >>)
    /\ call.digest = << << "blake3", Bytes(<< 97, 98, 98, 49, 49, 49 >>) >> >>

\* C3 as claimed: two calls with distinct (domain, schema_id, schema_version)
\* triples never hash the same preimage, whatever the message bytes.
C3_AnyTriplesSeparated ==
    (call # None /\ last # None /\ Triple(call) # Triple(last)) =>
        Preimage(call.digest) # Preimage(last.digest)

\* C5: same schema_id, schema_version and bytes under two different domains give
\* two different digests.
C5_DomainSeparation ==
    (/\ call # None /\ last # None
     /\ call.domain # last.domain
     /\ call.schema_id = last.schema_id
     /\ call.schema_version = last.schema_version
     /\ call.bytes = last.bytes) =>
        call.digest # last.digest

C5_Witness ==
    /\ call # None /\ last # None
    /\ call.domain = << 97 >> /\ last.domain = << 97, 98 >>
    /\ call.schema_id = << 98 >> /\ last.schema_id = << 98 >>
    /\ call.schema_version = last.schema_version
    /\ call.bytes = last.bytes
    /\ call.digest # last.digest


(* The registered domain strings and schema ids (tests/determinism.rs) *)

\* "ucf.v1"
DOMAIN_as_namespace ==
    << 117, 99, 102, 46, 118, 49 >>

\* "ucf-core"
UCF_CORE_DOMAIN ==
    << 117, 99, 102, 45, 99, 111, 114, 101 >>

\* the schema ids, by the name of the constant
SCHEMAS ==
    [ INTENT_SCHEMA |->  \* "ucf.v1.CanonicalIntent"
          << 117, 99, 102, 46, 118, 49, 46, 67, 97, 110, 111, 110, 105, 99, 97, 108, 73, 110, 116, 101, 110, 116 >>,
      POLICY_SCHEMA |->  \* "ucf.v1.PolicyDecision"
          << 117, 99, 102, 46, 118, 49, 46, 80, 111, 108, 105, 99, 121, 68, 101, 99, 105, 115, 105, 111, 110 >>,
      PVGS_SCHEMA |->  \* "ucf.v1.PVGSReceipt"
          << 117, 99, 102, 46, 118, 49, 46, 80, 86, 71, 83, 82, 101, 99, 101, 105, 112, 116 >>,
      SIGNAL_FRAME_SCHEMA |->  \* "ucf.v1.SignalFrame"
          << 117, 99, 102, 46, 118, 49, 46, 83, 105, 103, 110, 97, 108, 70, 114, 97, 109, 101 >>,
      CONTROL_FRAME_SCHEMA |->  \* "ucf.v1.ControlFrame"
          << 117, 99, 102, 46, 118, 49, 46, 67, 111, 110, 116, 114, 111, 108, 70, 114, 97, 109, 101 >>,
      EXPERIENCE_SCHEMA |->  \* "ucf.v1.ExperienceRecord"
          << 117, 99, 102, 46, 118, 49, 46, 69, 120, 112, 101, 114, 105, 101, 110, 99, 101, 82, 101, 99, 111, 114, 100 >>,
      MICRO_MILESTONE_SCHEMA |->  \* "ucf.v1.MicroMilestone"
          << 117, 99, 102, 46, 118, 49, 46, 77, 105, 99, 114, 111, 77, 105, 108, 101, 115, 116, 111, 110, 101 >>,
      MESO_MILESTONE_SCHEMA |->  \* "ucf.v1.MesoMilestone"
          << 117, 99, 102, 46, 118, 49, 46, 77, 101, 115, 111, 77, 105, 108, 101, 115, 116, 111, 110, 101 >>,
      MACRO_MILESTONE_SCHEMA |->  \* "ucf.v1.MacroMilestone"
          << 117, 99, 102, 46, 118, 49, 46, 77, 97, 99, 114, 111, 77, 105, 108, 101, 115, 116, 111, 110, 101 >>,
      REPLAY_PLAN_SCHEMA |->  \* "ucf.v1.ReplayPlan"
          << 117, 99, 102, 46, 118, 49, 46, 82, 101, 112, 108, 97, 121, 80, 108, 97, 110 >>,
      REPLAY_RUN_SCHEMA |->  \* "ucf.v1.ReplayRunEvidence"
          << 117, 99, 102, 46, 118, 49, 46, 82, 101, 112, 108, 97, 121, 82, 117, 110, 69, 118, 105, 100, 101, 110, 99, 101 >>,
      CONSISTENCY_FEEDBACK_SCHEMA |->  \* "ucf.v1.ConsistencyFeedback"
          << 117, 99, 102, 46, 118, 49, 46, 67, 111, 110, 115, 105, 115, 116, 101, 110, 99, 121, 70, 101, 101, 100, 98, 97, 99, 107 >>,
      TOOL_REGISTRY_SCHEMA |->  \* "ucf.v1.ToolRegistryContainer"
          << 117, 99, 102, 46, 118, 49, 46, 84, 111, 111, 108, 82, 101, 103, 105, 115, 116, 114, 121, 67, 111, 110, 116, 97, 105, 110, 101, 114 >>,
      TOOL_ONBOARDING_SCHEMA |->  \* "ucf.v1.ToolOnboardingEvent"
          << 117, 99, 102, 46, 118, 49, 46, 84, 111, 111, 108, 79, 110, 98, 111, 97, 114, 100, 105, 110, 103, 69, 118, 101, 110, 116 >>,
      APPROVAL_ARTIFACT_PACKAGE_SCHEMA |->  \* "ucf.v1.ApprovalArtifactPackage"
          << 117, 99, 102, 46, 118, 49, 46, 65, 112, 112, 114, 111, 118, 97, 108, 65, 114, 116, 105, 102, 97, 99, 116, 80, 97, 99, 107, 97, 103, 101 >>,
      APPROVAL_DECISION_SCHEMA |->  \* "ucf.v1.ApprovalDecision"
          << 117, 99, 102, 46, 118, 49, 46, 65, 112, 112, 114, 111, 118, 97, 108, 68, 101, 99, 105, 115, 105, 111, 110 >>,
      SEP_EVENT_SCHEMA |->  \* "ucf.v1.SepEvent"
          << 117, 99, 102, 46, 118, 49, 46, 83, 101, 112, 69, 118, 101, 110, 116 >>,
      SESSION_SEAL_SCHEMA |->  \* "ucf.v1.SessionSeal"
          << 117, 99, 102, 46, 118, 49, 46, 83, 101, 115, 115, 105, 111, 110, 83, 101, 97, 108 >>,
      COMPLETENESS_REPORT_SCHEMA |->  \* "ucf.v1.CompletenessReport"
          << 117, 99, 102, 46, 118, 49, 46, 67, 111, 109, 112, 108, 101, 116, 101, 110, 101, 115, 115, 82, 101, 112, 111, 114, 116 >>,
      UCF_ENVELOPE_SCHEMA |->  \* "ucf.v1.UcfEnvelope"
          << 117, 99, 102, 46, 118, 49, 46, 85, 99, 102, 69, 110, 118, 101, 108, 111, 112, 101 >>,
      REASON_CODES_SCHEMA |->  \* "ucf.v1.ReasonCodes"
          << 117, 99, 102, 46, 118, 49, 46, 82, 101, 97, 115, 111, 110, 67, 111, 100, 101, 115 >>,
      MICRO_CIRCUIT_SCHEMA |->  \* "ucf.v1.MicrocircuitConfigEvidence"
          << 117, 99, 102, 46, 118, 49, 46, 77, 105, 99, 114, 111, 99, 105, 114, 99, 117, 105, 116, 67, 111, 110, 102, 105, 103, 69, 118, 105, 100, 101, 110, 99, 101 >>,
      ASSET_DIGEST_SCHEMA |->  \* "ucf.v1.AssetDigest"
          << 117, 99, 102, 46, 118, 49, 46, 65, 115, 115, 101, 116, 68, 105, 103, 101, 115, 116 >>,
      ASSET_MANIFEST_SCHEMA |->  \* "ucf.v1.AssetManifest"
          << 117, 99, 102, 46, 118, 49, 46, 65, 115, 115, 101, 116, 77, 97, 110, 105, 102, 101, 115, 116 >>,
      MORPHOLOGY_SET_SCHEMA |->  \* "ucf.v1.MorphologySetPayload"
          << 117, 99, 102, 46, 118, 49, 46, 77, 111, 114, 112, 104, 111, 108, 111, 103, 121, 83, 101, 116, 80, 97, 121, 108, 111, 97, 100 >>,
      CHANNEL_PARAMS_SET_SCHEMA |->  \* "ucf.v1.ChannelParamsSetPayload"
          << 117, 99, 102, 46, 118, 49, 46, 67, 104, 97, 110, 110, 101, 108, 80, 97, 114, 97, 109, 115, 83, 101, 116, 80, 97, 121, 108, 111, 97, 100 >>,
      SYNAPSE_PARAMS_SET_SCHEMA |->  \* "ucf.v1.SynapseParamsSetPayload"
          << 117, 99, 102, 46, 118, 49, 46, 83, 121, 110, 97, 112, 115, 101, 80, 97, 114, 97, 109, 115, 83, 101, 116, 80, 97, 121, 108, 111, 97, 100 >>,
      CONNECTIVITY_GRAPH_SCHEMA |->  \* "ucf.v1.ConnectivityGraphPayload"
          << 117, 99, 102, 46, 118, 49, 46, 67, 111, 110, 110, 101, 99, 116, 105, 118, 105, 116, 121, 71, 114, 97, 112, 104, 80, 97, 121, 108, 111, 97, 100 >> ]

\* "1"
VERSION ==
    << 49 >>

\* the domains of the microcircuit and asset records, by the name of the constant
DOMAINS ==
    [ MICRO_CIRCUIT_DOMAIN |->  \* "UCF:HASH:MC_CONFIG"
          << 85, 67, 70, 58, 72, 65, 83, 72, 58, 77, 67, 95, 67, 79, 78, 70, 73, 71 >>,
      ASSET_MORPHOLOGY_DOMAIN |->  \* "UCF:ASSET:MORPH"
          << 85, 67, 70, 58, 65, 83, 83, 69, 84, 58, 77, 79, 82, 80, 72 >>,
      ASSET_CHANNEL_PARAMS_DOMAIN |->  \* "UCF:ASSET:CHANNEL_PARAMS"
          << 85, 67, 70, 58, 65, 83, 83, 69, 84, 58, 67, 72, 65, 78, 78, 69, 76, 95, 80, 65, 82, 65, 77, 83 >>,
      ASSET_SYN_PARAMS_DOMAIN |->  \* "UCF:ASSET:SYN_PARAMS"
          << 85, 67, 70, 58, 65, 83, 83, 69, 84, 58, 83, 89, 78, 95, 80, 65, 82, 65, 77, 83 >>,
      ASSET_CONNECTIVITY_DOMAIN |->  \* "UCF:ASSET:CONNECTIVITY"
          << 85, 67, 70, 58, 65, 83, 83, 69, 84, 58, 67, 79, 78, 78, 69, 67, 84, 73, 86, 73, 84, 89 >>,
      ASSET_MANIFEST_DOMAIN |->  \* "UCF:ASSET:MANIFEST"
          << 85, 67, 70, 58, 65, 83, 83, 69, 84, 58, 77, 65, 78, 73, 70, 69, 83, 84 >> ]


Domains ==
    { UCF_CORE_DOMAIN } \cup { DOMAINS[name] : name \in DOMAIN DOMAINS }

SchemaIds ==
    { SCHEMAS[name] : name \in DOMAIN SCHEMAS }

RegisteredTriples == { << d, s, VERSION >> : d \in Domains, s \in SchemaIds }

\* a digest32 call under a registered triple
Digest32Registered(domain, schema_id, bytes) ==
    /\ caller = "fixture"
    /\ call' = [ domain |-> domain, schema_id |-> schema_id,
                 schema_version |-> VERSION, bytes |-> bytes,
                 digest |-> digest32(domain, schema_id, VERSION, bytes) ]
    /\ last' = None
    /\ UNCHANGED caller
    /\ UNCHANGED not_digest_vars

InitDigest ==
    /\ caller \in { "library", "fixture" }
    /\ call = None /\ last = None
    /\ IdleReceipt /\ IdleChain /\ IdleVrf /\ IdleWire /\ IdleFixtures

NextDigest ==
    \/ \E domain \in DomainStrs, schema_id \in SchemaStrs,
          schema_version \in VersionStrs, bytes \in ByteStrs :
           Digest32(domain, schema_id, schema_version, bytes)
    \/ \E domain \in Domains, schema_id \in SchemaIds, bytes \in ByteStrs :
           Digest32Registered(domain, schema_id, bytes)

SpecDigest == InitDigest /\ [][NextDigest]_vars

\* what digest32 hashes before the message bytes
Header(t) == Preimage(digest32(t[1], t[2], t[3], << >>))

\* C3 as amended: two digest32 calls under distinct registered triples never hash
\* the same preimage, whatever the two message byte strings are: no registered
\* header is a prefix of another, and the sampled messages never collide.
C3_RegisteredTriplesSeparated ==
    (call # None /\ Triple(call) \in RegisteredTriples) =>
        \A t \in RegisteredTriples :
            t # Triple(call) =>
                /\ ~IsPrefix(Header(t), Header(Triple(call)))
                /\ \A bytes \in ByteStrs :
                       Preimage(digest32(t[1], t[2], t[3], bytes)) # Preimage(call.digest)

C3_Witness ==
    /\ call # None
    /\ Triple(call) = << DOMAINS.ASSET_MANIFEST_DOMAIN, SCHEMAS.ASSET_DIGEST_SCHEMA, VERSION >>
    /\ call.bytes = Bytes(<< 49 >>)
    /\ Preimage(call.digest) #
           Preimage(digest32(DOMAINS.ASSET_MORPHOLOGY_DOMAIN, SCHEMAS.ASSET_DIGEST_SCHEMA, VERSION, call.bytes))

\* C4: over the registered domains and schema ids with version "1", no domain is a
\* prefix of a schema id, and two distinct triples never give the same
\* concatenation domain || schema_id || schema_version.
C4_RegistryUnambiguous ==
    (call # None /\ caller = "fixture") =>
        /\ Triple(call) \in RegisteredTriples
        /\ \A s \in SchemaIds : ~IsPrefix(call.domain, s)
        /\ \A t \in RegisteredTriples :
               t # Triple(call) =>
                   t[1] \o t[2] \o t[3]
                       # call.domain \o call.schema_id \o call.schema_version

C4_Witness ==
    /\ call # None
    /\ call.domain = UCF_CORE_DOMAIN
    /\ call.schema_id = SCHEMAS.INTENT_SCHEMA
    /\ call.schema_version = << 49 >>
    /\ Cardinality(RegisteredTriples) = 7 * 28


(* Proof receipts: issue_proof_receipt calls on one issuer *)

\* bound on the length of the commit ids the calls are drawn from
MaxCommitLen == 2

\* the epoch of the issuer's dev engine
IssuerEpoch == 5

\* [3u8; 32] and [4u8; 32]
VerifiedFieldsDigests == { Repeat(3, 32), Repeat(4, 32) }

\* the genesis predecessor [0u8; 32], and [3u8; 32]
PrevRecordDigests == { Repeat(0, 32), Repeat(3, 32) }

\* commit ids over the bytes 3 and 99 ("c")
CommitIds == { Bytes(s) : s \in SeqsOf({ 3, 99 }, 0, MaxCommitLen) }

\* "charter-digest"
CharterDigest ==
    << 99, 104, 97, 114, 116, 101, 114, 45, 100, 105, 103, 101, 115, 116 >>

sample_signature ==
    [ algorithm |-> << 101, 100, 50, 53, 53, 49, 57 >>,
      signer |-> Repeat(170, 32),
      signature |-> Repeat(187, 64) ]

\* the calls: every chain triple with the test's other arguments, and for the
\* triple ([3u8; 32], the genesis predecessor, the empty commit id) every
\* status, receipt digest ([9u8; 32], [8u8; 32]), epoch argument (the engine's
\* epoch and the next) and validator signature
ReceiptInputs ==
    { [ status |-> "Accepted",
        receipt_digest |-> Repeat(9, 32),
        verified_fields_digest |-> vfd,
        prev_record_digest |-> prev,
        charter_digest |-> CharterDigest,
        profile_digest |-> Repeat(2, 32),
        commit_id |-> commit,
        epoch_id |-> IssuerEpoch,
        validator |-> sample_signature ] :
      vfd \in VerifiedFieldsDigests, prev \in PrevRecordDigests, commit \in CommitIds }
    \cup
    { [ status |-> status,
        receipt_digest |-> rd,
        verified_fields_digest |-> Repeat(3, 32),
        prev_record_digest |-> Repeat(0, 32),
        charter_digest |-> CharterDigest,
        profile_digest |-> Repeat(2, 32),
        commit_id |-> << >>,
        epoch_id |-> epoch,
        validator |-> validator ] :
      status \in { "Accepted", "Rejected", "Pending" },
      rd \in { Repeat(9, 32), Repeat(8, 32) },
      epoch \in { IssuerEpoch, IssuerEpoch + 1 },
      validator \in { sample_signature,
                      [ sample_signature EXCEPT !.signature = Repeat(204, 64) ] } }

IssueProofReceipt_first_writer_wins(inputs) ==
    /\ receipt' =
           IF receipt # None /\ receipt.inputs.prev_record_digest = inputs.prev_record_digest
           THEN [ receipt EXCEPT !.inputs = inputs ]
           ELSE [ inputs |-> inputs,
                  record_digest |-> record_digest_from_components(
                                        inputs.verified_fields_digest,
                                        inputs.prev_record_digest,
                                        inputs.commit_id),
                  out |-> issue_proof_receipt(ProofReceiptIssuer_new(engine), inputs) ]
    /\ receipt_last' = receipt
    /\ UNCHANGED not_receipt_vars

IssueProofReceipt(inputs) ==
    /\ receipt' =
           [ inputs |-> inputs,
             record_digest |-> record_digest_from_components(
                                   inputs.verified_fields_digest,
                                   inputs.prev_record_digest,
                                   inputs.commit_id),
             out |-> issue_proof_receipt(ProofReceiptIssuer_new(engine), inputs) ]
    /\ receipt_last' = receipt
    /\ UNCHANGED not_receipt_vars

InitReceipt ==
    /\ IdleDigest /\ IdleReceipt /\ IdleChain /\ IdleWire /\ IdleFixtures
    /\ engine = new_dev(IssuerEpoch) /\ vrf = None /\ vrf_last = None /\ recomputed = None
    /\ threads = None

NextReceipt == \E inputs \in ReceiptInputs : IssueProofReceipt(inputs)

SpecReceipt == InitReceipt /\ [][NextReceipt]_vars

\* C7: the record digest is BLAKE3 over verified_fields_digest || prev_record_digest
\* || commit_id: the verified-fields digest first, the predecessor second, the
\* commit id last, and nothing else.
C7_RecordDigestPreimage ==
    receipt # None =>
        /\ receipt.record_digest =
               << << "blake3",
                     receipt.inputs.verified_fields_digest
                         \o receipt.inputs.prev_record_digest
                         \o receipt.inputs.commit_id >> >>
        /\ ByteLen(Preimage(receipt.record_digest)) = 64 + Len(receipt.inputs.commit_id)
        /\ SubSeq(Preimage(receipt.record_digest), 1, 32) =
               receipt.inputs.verified_fields_digest
        /\ SubSeq(Preimage(receipt.record_digest), 33, 64) =
               receipt.inputs.prev_record_digest

C7_Witness ==
    /\ receipt # None
    /\ receipt.inputs.verified_fields_digest = Repeat(4, 32)
    /\ receipt.inputs.prev_record_digest = Repeat(3, 32)
    /\ receipt.inputs.commit_id = Bytes(<< 99, 3 >>)
    /\ Len(Preimage(receipt.record_digest)) = 66

\* the number of the three chained components two calls differ in
ComponentsChanged(a, b) ==
    (IF a.verified_fields_digest # b.verified_fields_digest THEN 1 ELSE 0)
        + (IF a.prev_record_digest # b.prev_record_digest THEN 1 ELSE 0)
        + (IF a.commit_id # b.commit_id THEN 1 ELSE 0)

VrfTag(r) == r.out.vrf_digest[1].value

\* C8: changing exactly one of prev_record_digest, verified_fields_digest and
\* commit_id changes the hashed preimage and the record digest; two records that
\* differ only in commit_id also get different VRF tags.
C8_ChainSensitivity ==
    (receipt # None /\ receipt_last # None) =>
        /\ ComponentsChanged(receipt.inputs, receipt_last.inputs) = 1 =>
               /\ Preimage(receipt.record_digest) # Preimage(receipt_last.record_digest)
               /\ receipt.record_digest # receipt_last.record_digest
        /\ (/\ receipt.inputs.commit_id # receipt_last.inputs.commit_id
            /\ [ receipt.inputs EXCEPT !.commit_id = << >> ]
                   = [ receipt_last.inputs EXCEPT !.commit_id = << >> ]) =>
               VrfTag(receipt) # VrfTag(receipt_last)

C8_Witness ==
    /\ receipt # None /\ receipt_last # None
    /\ receipt.inputs.commit_id = Bytes(<< 3 >>)
    /\ receipt_last.inputs.commit_id = Bytes(<< 3, 3 >>)
    /\ receipt.inputs.verified_fields_digest = Repeat(3, 32)
    /\ receipt.inputs.prev_record_digest = Repeat(3, 32)
    /\ [ receipt.inputs EXCEPT !.commit_id = << >> ]
           = [ receipt_last.inputs EXCEPT !.commit_id = << >> ]
    /\ receipt.record_digest # receipt_last.record_digest
    /\ VrfTag(receipt) # VrfTag(receipt_last)


(* Record chain: each record's prev_record_digest is the record digest of its
   predecessor, the first record's is 32 zero bytes.  alt is the same chain with
   one record's verified_fields_digest or commit_id changed. *)

\* bound on the length of the chain
MaxChainLen == 3

GenesisDigest == Repeat(0, 32)

ChainCommitIds == { Bytes(<< 1 >>), Bytes(<< 1, 2 >>) }

Tip(c) == IF c = << >> THEN GenesisDigest ELSE c[Len(c)].record_digest

Seal(c, verified_fields_digest, commit_id) ==
    Append(c, [ verified_fields_digest |-> verified_fields_digest,
                prev_record_digest |-> Tip(c),
                commit_id |-> commit_id,
                record_digest |-> record_digest_from_components(
                                      verified_fields_digest, Tip(c), commit_id) ])

AppendRecord(verified_fields_digest, commit_id) ==
    /\ Len(chain) < MaxChainLen
    /\ chain' = Seal(chain, verified_fields_digest, commit_id)
    /\ alt' = Seal(alt, verified_fields_digest, commit_id)
    /\ UNCHANGED tamper_at
    /\ UNCHANGED not_chain_vars

AppendTampered(verified_fields_digest, commit_id, other_digest, other_commit_id) ==
    /\ Len(chain) < MaxChainLen
    /\ tamper_at = 0
    /\ << verified_fields_digest, commit_id >> # << other_digest, other_commit_id >>
    /\ chain' = Seal(chain, verified_fields_digest, commit_id)
    /\ alt' = Seal(alt, other_digest, other_commit_id)
    /\ tamper_at' = Len(chain) + 1
    /\ UNCHANGED not_chain_vars

InitChain == IdleDigest /\ IdleReceipt /\ IdleChain /\ IdleVrf /\ IdleWire /\ IdleFixtures

NextChain ==
    \/ \E vfd \in VerifiedFieldsDigests, commit \in ChainCommitIds :
           AppendRecord(vfd, commit)
    \/ \E vfd \in VerifiedFieldsDigests, commit \in ChainCommitIds,
          vfd2 \in VerifiedFieldsDigests, commit2 \in ChainCommitIds :
           AppendTampered(vfd, commit, vfd2, commit2)

SpecChain == InitChain /\ [][NextChain]_vars

\* C9: in a chain linked through prev_record_digest from the zero genesis digest,
\* changing the verified_fields_digest or commit_id of a record changes the record
\* digest of that record and of every record after it.
C9_TamperPropagates ==
    /\ \A i \in 1..Len(chain) :
           chain[i].prev_record_digest =
               (IF i = 1 THEN Repeat(0, 32) ELSE chain[i - 1].record_digest)
    /\ tamper_at > 0 =>
           \A i \in tamper_at..Len(chain) : chain[i].record_digest # alt[i].record_digest

C9_Witness ==
    /\ tamper_at = 1
    /\ Len(chain) = 3
    /\ chain[1].verified_fields_digest = alt[1].verified_fields_digest
    /\ chain[1].commit_id # alt[1].commit_id
    /\ chain[3].record_digest # alt[3].record_digest


(* VRF: eval_record_vrf calls on one dev engine, and the recomputation of the
   tag from the signature as in temporary_verify_recomputes_digest_from_signature *)

\* the epochs a dev engine is built for
DevEpochs == { 7, 9 }

\* [1u8; 32], and the same with the first byte xor 0xFF
RecordDigests == { Repeat(1, 32), << U8(254) >> \o Repeat(1, 31) }

\* "", "c" and "charter-digest"
CharterDigests == { << >>, << 99 >>, CharterDigest }

\* [2u8; 32] and [99u8; 32]
ProfileDigests == { Repeat(2, 32), Repeat(99, 32) }

EpochIds == { 42, 256 }

EvalRecordVrf(prev_record_digest, record_digest, charter_digest, profile_digest, epoch_id) ==
    /\ vrf' = [ prev_record_digest |-> prev_record_digest,
                record_digest |-> record_digest,
                charter_digest |-> charter_digest,
                profile_digest |-> profile_digest,
                epoch_id |-> epoch_id,
                tag |-> eval_record_vrf(engine, prev_record_digest, record_digest,
                                        charter_digest, profile_digest, epoch_id) ]
    /\ (vrf_last' = vrf \/ vrf_last' = vrf_last)
    /\ recomputed' = None
    /\ UNCHANGED << engine, threads >>
    /\ UNCHANGED not_vrf_vars

\* message = build_message(..); signature = signing_key.sign(&message);
\* recomputed = digest_signature(&signature)
TemporaryVerify ==
    /\ vrf # None
    /\ recomputed = None
    /\ recomputed' =
           digest_signature(
               Sign(engine.signing_key,
                    build_message(vrf.prev_record_digest, vrf.record_digest,
                                  vrf.charter_digest, vrf.profile_digest, vrf.epoch_id)))
    /\ UNCHANGED << engine, vrf, vrf_last, threads >>
    /\ UNCHANGED not_vrf_vars

InitVrf ==
    /\ IdleDigest /\ IdleReceipt /\ IdleChain /\ IdleWire /\ IdleFixtures
    /\ engine \in { new_dev(e) : e \in DevEpochs }
    /\ vrf = None /\ vrf_last = None /\ recomputed = None /\ threads = None

NextVrf ==
    \/ \E prev \in PrevRecordDigests, rec \in RecordDigests, charter \in CharterDigests,
          profile \in ProfileDigests, epoch \in EpochIds :
           EvalRecordVrf(prev, rec, charter, profile, epoch)
    \/ TemporaryVerify

SpecVrf == InitVrf /\ [][NextVrf]_vars

\* the value of the u64 whose little-endian bytes are bs
RECURSIVE LeValue(_)
LeValue(bs) == IF bs = << >> THEN 0 ELSE Head(bs)[2] + 256 * LeValue(Tail(bs))

\* the message signed for the call
SignedMessage(v) == Preimage(v.tag)[1][2][1][3]

\* C10: the tag is BLAKE3(SHA-512(Ed25519.sign(sk, preimage))) with preimage =
\* "UCF:VRF:EXPERIENCE_RECORD" || prev_record_digest || record_digest ||
\* charter_digest bytes || profile_digest || le_u64(epoch_id), in that order, and
\* the digest recomputed from the signature over build_message's output equals it.
C10_VrfConstruction ==
    vrf # None =>
        LET msg == SignedMessage(vrf)
            n == Len(vrf.charter_digest)
        IN  /\ vrf.tag = << << "blake3", << << "sha512",
                   << << "ed25519", engine.signing_key, msg >> >> >> >> >> >>
            /\ ByteLen(vrf.tag) = 32
            /\ Len(msg) = 25 + 32 + 32 + n + 32 + 8
            /\ SubSeq(msg, 1, 25) = VRF_DOMAIN
            /\ SubSeq(msg, 26, 57) = vrf.prev_record_digest
            /\ SubSeq(msg, 58, 89) = vrf.record_digest
            /\ SubSeq(msg, 90, 89 + n) = Bytes(vrf.charter_digest)
            /\ SubSeq(msg, 90 + n, 121 + n) = vrf.profile_digest
            /\ LeValue(SubSeq(msg, 122 + n, 129 + n)) = vrf.epoch_id
            /\ SubSeq(msg, 122 + n, 123 + n) =
                   << U8(vrf.epoch_id % 256), U8(vrf.epoch_id \div 256) >>
            /\ recomputed # None => recomputed = vrf.tag

C10_Witness ==
    /\ vrf # None
    /\ vrf.charter_digest = CharterDigest
    /\ vrf.epoch_id = 256
    /\ vrf.profile_digest = Repeat(2, 32)
    /\ recomputed = vrf.tag
    /\ Len(SignedMessage(vrf)) = 143

(* Canonical encoder: the protobuf wire format as prost writes and reads it.
   The schema catalog is the part of the messages the fixtures use; a message is
   a record of its fields: a plain scalar holds its value, an optional scalar
   and a nested message hold None or Some(v), a repeated field holds a
   sequence.  Wire bytes are concrete bytes. *)

Field(num, name, kind, card, type) ==
    [ num |-> num, name |-> name, kind |-> kind, card |-> card, type |-> type ]

\* the fields of each message type, in ascending field number
Schema ==
    [ ReasonCodes |-> << Field(1, "codes", "string", "repeated", "") >>,
      Digest32 |-> << Field(1, "value", "bytes", "plain", "") >>,
      Ref |-> << Field(1, "uri", "string", "plain", ""),
                 Field(2, "label", "string", "plain", "") >>,
      Signature |-> << Field(1, "algorithm", "string", "plain", ""),
                       Field(2, "signer", "bytes", "plain", ""),
                       Field(3, "signature", "bytes", "plain", "") >>,
      MicrocircuitConfigEvidence |->
          << Field(1, "module", "varint", "plain", ""),
             Field(2, "config_version", "varint", "plain", ""),
             Field(3, "config_digest", "message", "optional", "Digest32"),
             Field(4, "created_at_ms", "varint", "plain", ""),
             Field(5, "prev_config_digest", "message", "optional", "Digest32"),
             Field(6, "proof_receipt_ref", "message", "optional", "Ref"),
             Field(7, "attestation_sig", "message", "optional", "Signature"),
             Field(8, "attestation_key_id", "string", "optional", "") >>,
      SepEvent |->
          << Field(1, "event_id", "string", "plain", ""),
             Field(2, "session_id", "string", "plain", ""),
             Field(3, "event_type", "varint", "plain", ""),
             Field(4, "object_ref", "message", "optional", "Ref"),
             Field(5, "reason_codes", "message", "optional", "ReasonCodes"),
             Field(6, "timestamp_ms", "varint", "plain", ""),
             Field(7, "prev_event_digest", "message", "optional", "Digest32"),
             Field(8, "event_digest", "message", "optional", "Digest32"),
             Field(9, "attestation_sig", "message", "optional", "Signature"),
             Field(10, "epoch_id", "varint", "plain", "") >> ]

\* prost::encoding::encode_varint: base-128, least significant group first
RECURSIVE encode_varint(_)
encode_varint(value) ==
    IF value < 128
    THEN << U8(value) >>
    ELSE << U8(128 + (value % 128)) >> \o encode_varint(value \div 128)

\* prost::encoding::encode_key; wire type 0 is varint, 2 is length-delimited
encode_key(tag, wire_type) == encode_varint(tag * 8 + wire_type)

WireType(kind) == IF kind = "varint" THEN 0 ELSE 2

RECURSIVE encode_to_vec(_, _)

\* key and payload of one value of a field
EncodeValue(fd, v) ==
    CASE fd.kind = "varint" -> encode_key(fd.num, 0) \o encode_varint(v)
      [] fd.kind = "string" -> encode_key(fd.num, 2) \o encode_varint(Len(v)) \o Bytes(v)
      [] fd.kind = "bytes" -> encode_key(fd.num, 2) \o encode_varint(Len(v)) \o v
      [] fd.kind = "message" ->
             LET body == encode_to_vec(fd.type, v)
             IN  encode_key(fd.num, 2) \o encode_varint(Len(body)) \o body

IsDefault(fd, v) == IF fd.kind = "varint" THEN v = 0 ELSE Len(v) = 0

RECURSIVE EncodeRepeated(_, _)
EncodeRepeated(fd, vs) ==
    IF Len(vs) = 0 THEN << >> ELSE EncodeValue(fd, Head(vs)) \o EncodeRepeated(fd, Tail(vs))

\* a plain scalar at its default is left out, None is left out, Some(v) is
\* written even when v is the default, a repeated field is written element by
\* element in the order given
EncodeField(fd, v) ==
    CASE fd.card = "plain" -> IF IsDefault(fd, v) THEN << >> ELSE EncodeValue(fd, v)
      [] fd.card = "optional" -> IF Len(v) = 0 THEN << >> ELSE EncodeValue(fd, v[1])
      [] fd.card = "repeated" -> EncodeRepeated(fd, v)

RECURSIVE EncodeFields(_, _)
EncodeFields(fields, msg) ==
    IF Len(fields) = 0
    THEN << >>
    ELSE EncodeField(Head(fields), msg[Head(fields).name]) \o EncodeFields(Tail(fields), msg)

\* prost::Message::encode_to_vec
encode_to_vec(type, msg) == EncodeFields(Schema[type], msg)

\* prost::Message::encode_length_delimited_to_vec
encode_length_delimited_to_vec(type, msg) ==
    encode_varint(Len(encode_to_vec(type, msg))) \o encode_to_vec(type, msg)

\* a <= b in the byte order of String: a is a prefix of b, or a has the smaller
\* byte where they first differ
LexLeq(a, b) ==
    \/ Len(a) <= Len(b) /\ SubSeq(b, 1, Len(a)) = a
    \/ \E i \in 1..(IF Len(a) < Len(b) THEN Len(a) ELSE Len(b)) :
           /\ SubSeq(a, 1, i - 1) = SubSeq(b, 1, i - 1)
           /\ a[i] < b[i]

\* the list is what values.sort() leaves: ascending byte order
IsSorted(values) == \A i \in 1..(Len(values) - 1) : LexLeq(values[i], values[i + 1])

canonical_bytes_sorted(type, msg) ==
    IF type = "ReasonCodes"
    THEN encode_to_vec(type, [ msg EXCEPT !.codes =
                                   SortSeq(@, LAMBDA a, b : LexLeq(a, b) /\ a # b) ])
    ELSE encode_to_vec(type, msg)

canonical_bytes_presence_dropped(type, msg) ==
    IF type = "MicrocircuitConfigEvidence"
    THEN encode_to_vec(type, [ msg EXCEPT !.attestation_key_id =
                                   IF @ = Some(<< >>) THEN None ELSE @ ])
    ELSE encode_to_vec(type, msg)

canonical_bytes_zero_elided(type, msg) ==
    IF type = "SepEvent" /\ msg.prev_event_digest = Some([ value |-> Repeat(0, 32) ])
    THEN encode_to_vec(type, [ msg EXCEPT !.prev_event_digest = None ])
    ELSE encode_to_vec(type, msg)

canonical_bytes_length_delimited(type, msg) == encode_length_delimited_to_vec(type, msg)

canonical_bytes(type, msg) == encode_to_vec(type, msg)

\* Default::default() of a message type
DefaultValue(fd) ==
    IF fd.card = "plain" /\ fd.kind = "varint" THEN 0 ELSE << >>

DefaultMessage(type) ==
    [ name \in { Schema[type][i].name : i \in 1..Len(Schema[type]) } |->
        DefaultValue(CHOOSE fd \in { Schema[type][i] : i \in 1..Len(Schema[type]) } :
                         fd.name = name) ]

DecodeError(description) == [ ok |-> FALSE, description |-> description ]

\* prost::encoding::decode_varint: at most 10 bytes
RECURSIVE DecodeVarintFrom(_, _, _, _)
DecodeVarintFrom(bs, pos, scale, count) ==
    IF pos > Len(bs) \/ count >= 10
    THEN [ ok |-> FALSE, value |-> 0, next |-> pos ]
    ELSE IF bs[pos][2] < 128
         THEN [ ok |-> TRUE, value |-> bs[pos][2] * scale, next |-> pos + 1 ]
         ELSE LET rest == DecodeVarintFrom(bs, pos + 1, scale * 128, count + 1)
              IN  [ ok |-> rest.ok,
                    value |-> (bs[pos][2] - 128) * scale + rest.value,
                    next |-> rest.next ]

decode_varint(bs, pos) == DecodeVarintFrom(bs, pos, 1, 0)

\* a length-delimited payload: [ok, payload, next]
DecodeLengthDelimited(bs, pos) ==
    LET len == decode_varint(bs, pos)
    IN  IF ~len.ok \/ len.next + len.value - 1 > Len(bs)
        THEN [ ok |-> FALSE, payload |-> << >>, next |-> pos ]
        ELSE [ ok |-> TRUE,
               payload |-> SubSeq(bs, len.next, len.next + len.value - 1),
               next |-> len.next + len.value ]

\* String::from_utf8 on the payload: the code units, for bytes below 128
IsUtf8(bs) == \A i \in 1..Len(bs) : bs[i][2] < 128

FromUtf8(bs) == [ i \in 1..Len(bs) |-> bs[i][2] ]

\* prost::encoding::skip_field for a field the schema does not have: its bytes
\* are consumed and dropped (groups, wire types 3 and 4, are rejected here)
skip_field(wire_type, bs, pos) ==
    CASE wire_type = 0 ->
             LET v == decode_varint(bs, pos)
             IN  [ ok |-> v.ok, next |-> v.next ]
      [] wire_type = 1 -> [ ok |-> pos + 7 <= Len(bs), next |-> pos + 8 ]
      [] wire_type = 2 ->
             LET p == DecodeLengthDelimited(bs, pos)
             IN  [ ok |-> p.ok, next |-> p.next ]
      [] wire_type = 5 -> [ ok |-> pos + 3 <= Len(bs), next |-> pos + 4 ]
      [] OTHER -> [ ok |-> FALSE, next |-> pos ]

RECURSIVE DecodeFields(_, _, _, _)

\* store a decoded value: a scalar replaces, Some wraps, repeated appends
Store(msg, fd, v) ==
    CASE fd.card = "plain" -> [ msg EXCEPT ![fd.name] = v ]
      [] fd.card = "optional" -> [ msg EXCEPT ![fd.name] = << v >> ]
      [] fd.card = "repeated" -> [ msg EXCEPT ![fd.name] = Append(@, v) ]

\* the generated merge_field: [ok, msg, next]
merge_field(type, msg, tag, wire_type, bs, pos) ==
    LET known == { fd \in { Schema[type][i] : i \in 1..Len(Schema[type]) } : fd.num = tag }
    IN  IF known = { }
        THEN LET s == skip_field(wire_type, bs, pos)
             IN  IF s.ok THEN [ ok |-> TRUE, msg |-> msg, next |-> s.next ]
                 ELSE DecodeError("skip")
        ELSE LET fd == CHOOSE f \in known : TRUE
             IN  IF wire_type # WireType(fd.kind)
                 THEN DecodeError("invalid wire type")
                 ELSE IF fd.kind = "varint"
                 THEN LET v == decode_varint(bs, pos)
                      IN  IF v.ok
                          THEN [ ok |-> TRUE, msg |-> Store(msg, fd, v.value), next |-> v.next ]
                          ELSE DecodeError("invalid varint")
                 ELSE LET p == DecodeLengthDelimited(bs, pos)
                      IN  IF ~p.ok THEN DecodeError("buffer underflow")
                          ELSE IF fd.kind = "bytes"
                          THEN [ ok |-> TRUE, msg |-> Store(msg, fd, p.payload), next |-> p.next ]
                          ELSE IF fd.kind = "string"
                          THEN IF IsUtf8(p.payload)
                               THEN [ ok |-> TRUE,
                                      msg |-> Store(msg, fd, FromUtf8(p.payload)),
                                      next |-> p.next ]
                               ELSE DecodeError("invalid string value")
                          ELSE LET into == IF Len(msg[fd.name]) = 0
                                           THEN DefaultMessage(fd.type)
                                           ELSE msg[fd.name][1]
                                   sub == DecodeFields(fd.type, p.payload, 1, into)
                               IN  IF sub.ok
                                   THEN [ ok |-> TRUE,
                                          msg |-> Store(msg, fd, sub.msg),
                                          next |-> p.next ]
                                   ELSE sub

\* the decode loop: a key, then the field, until the buffer is used up
DecodeFields(type, bs, pos, msg) ==
    IF pos > Len(bs)
    THEN [ ok |-> TRUE, msg |-> msg ]
    ELSE LET key == decode_varint(bs, pos)
         IN  IF ~key.ok THEN DecodeError("invalid varint")
             ELSE IF key.value % 8 \notin { 0, 1, 2, 3, 4, 5 }
             THEN DecodeError("invalid wire type value")
             ELSE IF key.value \div 8 = 0
             THEN DecodeError("invalid tag value: 0")
             ELSE LET r == merge_field(type, msg, key.value \div 8, key.value % 8,
                                       bs, key.next)
                  IN  IF r.ok THEN DecodeFields(type, bs, r.next, r.msg) ELSE r

\* prost::Message::decode
decode(type, bs) == DecodeFields(type, bs, 1, DefaultMessage(type))

(* Round trip of the canonical encoding: a typed record is encoded, the bytes
   are decoded with the record's schema, and the decoded record is encoded
   again (tests/determinism.rs, verify_case_with_domain and
   microcircuit_config_hpa_bin_case). *)

SampleDigests == { [ value |-> << >> ], [ value |-> Repeat(68, 32) ] }

SampleRefs == { [ uri |-> << 97 >>, label |-> << >> ],
                [ uri |-> << 97, 98 >>, label |-> << 99 >> ] }

SampleSignatures ==
    { [ algorithm |-> << 101, 100 >>, signer |-> Repeat(1, 2),
        signature |-> Repeat(200, 130) ] }

Optional(S) == { None } \cup { Some(x) : x \in S }

ReasonCodesSamples ==
    { [ type |-> "ReasonCodes", msg |-> [ codes |-> cs ] ] :
        cs \in SeqsOf({ << >>, << 97 >>, << 98, 97 >> }, 0, 2) }

MicrocircuitConfigEvidenceSamples ==
    { [ type |-> "MicrocircuitConfigEvidence",
        msg |-> [ module |-> m, config_version |-> 1, config_digest |-> cd,
                  created_at_ms |-> at, prev_config_digest |-> pd,
                  proof_receipt_ref |-> rf, attestation_sig |-> sg,
                  attestation_key_id |-> kid ] ] :
        m \in { 0, 3 }, cd \in Optional(SampleDigests), at \in { 0, 1700125000 },
        pd \in Optional({ [ value |-> Repeat(34, 32) ] }),
        rf \in Optional(SampleRefs), sg \in Optional(SampleSignatures),
        kid \in Optional({ << >>, << 107 >> }) }

MessageSamples == ReasonCodesSamples \cup MicrocircuitConfigEvidenceSamples

\* let bytes = canonical_bytes(&message)
Encode ==
    /\ wire = None /\ decoded = None
    /\ wire' = << canonical_bytes(message.type, message.msg) >>
    /\ UNCHANGED << message, decoded, reencoded >>
    /\ UNCHANGED not_wire_vars

\* let decoded = M::decode(bytes)
Decode ==
    /\ wire # None /\ decoded = None
    /\ decoded' = << decode(message.type, wire[1]) >>
    /\ UNCHANGED << message, wire, reencoded >>
    /\ UNCHANGED not_wire_vars

\* let encoded = canonical_bytes(&decoded)
ReEncode ==
    /\ decoded # None /\ reencoded = None
    /\ decoded[1].ok
    /\ reencoded' = << canonical_bytes(message.type, decoded[1].msg) >>
    /\ UNCHANGED << message, wire, decoded >>
    /\ UNCHANGED not_wire_vars

InitWire ==
    /\ message \in MessageSamples
    /\ wire = None /\ decoded = None /\ reencoded = None
    /\ IdleDigest /\ IdleReceipt /\ IdleChain /\ IdleVrf /\ IdleFixtures

NextWire == Encode \/ Decode \/ ReEncode

SpecWire == InitWire /\ [][NextWire]_vars

\* C1: bytes produced by canonical_bytes from a record decode with the record's
\* schema, and re-encoding the decoded record with canonical_bytes gives exactly
\* the same bytes.
C1_RoundTrip ==
    /\ decoded # None => decoded[1].ok
    /\ reencoded # None => reencoded = wire

C1_Witness ==
    /\ reencoded # None
    /\ message.type = "MicrocircuitConfigEvidence"
    /\ message.msg.attestation_sig # None
    /\ message.msg.attestation_key_id = Some(<< >>)
    /\ message.msg.config_digest = Some([ value |-> << >> ])
    /\ Len(wire[1]) > 128

(* Fixture files: the generators under examples/ write testvectors/<name>.hex
   (or .bin) and testvectors/<name>.digest, and tests/determinism.rs reads them
   back.  A text file is a sequence of characters << "ch", code >>; the hex
   text of a hash output is one item << "hex", block >>.  A record whose schema
   is outside the catalog is [type, msg] with msg the name of the generator's
   variable, and its canonical bytes are one item << "record", type, msg >>. *)

HexValue(ch) ==
    IF ch[1] # "ch" THEN -1
    ELSE IF ch[2] \in 48..57 THEN ch[2] - 48
    ELSE IF ch[2] \in 97..102 THEN ch[2] - 87
    ELSE IF ch[2] \in 65..70 THEN ch[2] - 55
    ELSE -1

\* hex::decode: [ok, bytes]; an odd number of digits, or a character that is no
\* hex digit, is an error
hex_decode(text) ==
    IF Len(text) > 0 /\ \A i \in 1..Len(text) : text[i][1] = "hex"
    THEN [ ok |-> TRUE, bytes |-> [ i \in 1..Len(text) |-> text[i][2] ] ]
    ELSE IF Len(text) % 2 = 1 \/ \E i \in 1..Len(text) : HexValue(text[i]) < 0
    THEN [ ok |-> FALSE, bytes |-> << >> ]
    ELSE [ ok |-> TRUE,
           bytes |-> [ i \in 1..(Len(text) \div 2) |->
                         U8(16 * HexValue(text[2 * i - 1]) + HexValue(text[2 * i])) ] ]

trim_none(text) == text

\* str::trim: from the first to the last character that is no white space
trim(text) ==
    LET kept == { i \in 1..Len(text) :
                    ~(text[i][1] = "ch" /\ text[i][2] \in { 9, 10, 11, 12, 13, 32 }) }
    IN  IF kept = { }
        THEN << >>
        ELSE SubSeq(text, CHOOSE i \in kept : \A k \in 1..(i - 1) : k \notin kept,
                    CHOOSE i \in kept : \A k \in (i + 1)..Len(text) : k \notin kept)

\* canonical_bytes of a record of any message type
EncodeRecord(rec) ==
    IF rec.type \in DOMAIN Schema
    THEN canonical_bytes(rec.type, rec.msg)
    ELSE << << "record", rec.type, rec.msg >> >>

\* M::decode of the bytes of a fixture
DecodeRecord(type, bytes) ==
    IF type \in DOMAIN Schema
    THEN decode(type, bytes)
    ELSE IF Len(bytes) = 1 /\ bytes[1][1] = "record" /\ bytes[1][2] = type
    THEN [ ok |-> TRUE, msg |-> bytes[1][3] ]
    ELSE DecodeError("decode")

\* fs::write of the body and of the digest file
WriteFiles(fs, name, extension, body, digest_body) ==
    [ fs EXCEPT ![<< name, extension >>] = Some(body),
                ![<< name, "digest" >>] = Some(digest_body) ]

write_fixture_core_domain(fs, name, schema, bytes, domain) ==
    WriteFiles(fs, name, "hex", hex_encode(bytes) \o << Ch(10) >>,
               hex_encode(digest32(<< 117, 99, 102, 45, 99, 111, 114, 101 >>, schema, << 49 >>,
                                   bytes)) \o << Ch(10) >>)

\* generate_vectors.rs
write_fixture(fs, name, schema, bytes, domain) ==
    WriteFiles(fs, name, "hex", hex_encode(bytes) \o << Ch(10) >>,
               hex_encode(digest32(domain, schema, << 49 >>, bytes)) \o << Ch(10) >>)

emit_fixture(fs, name, schema, rec, domain) ==
    write_fixture(fs, name, schema, EncodeRecord(rec), domain)

\* the emit_fixture calls of a main, in order
RECURSIVE EmitAll(_, _)
EmitAll(fs, calls) ==
    IF Len(calls) = 0
    THEN fs
    ELSE EmitAll(emit_fixture(fs, Head(calls).name, Head(calls).schema,
                              Head(calls).message, Head(calls).domain),
                 Tail(calls))

\* enum MicroModule as i32
MicroModule == [ Lc |-> 1, Sn |-> 2, Hpa |-> 3 ]

\* ReasonCodes { codes: vec!["deterministic", "coverage"] }
reason_codes ==
    [ type |-> "ReasonCodes",
      msg |-> [ codes |-> << << 100, 101, 116, 101, 114, 109, 105, 110, 105, 115, 116, 105, 99 >>,
                             << 99, 111, 118, 101, 114, 97, 103, 101 >> >> ] ]

\* generate_vectors.rs, sep_event_1, sep_event_2, sep_event_3 (the same literals
\* as in sep_event_chain_case); event_type is EvIntent, EvDecision, EvOutcome
\* as i32, taken as 1, 2, 3
sep_events ==
    <<
      [ type |-> "SepEvent",
        msg |-> [ event_id |-> << 101, 118, 116, 45, 49 >>,
                  session_id |-> << 115, 101, 115, 115, 105, 111, 110, 45, 57, 48, 48, 48 >>,
                  event_type |-> 1,
                  object_ref |-> Some([ uri |-> << 105, 110, 116, 101, 110, 116, 58, 47, 47, 112, 114, 105, 109, 97, 114, 121, 47, 52, 50 >>,
                                        label |-> << 105, 110, 116, 101, 110, 116 >> ]),
                  reason_codes |-> Some([ codes |-> << << 105, 110, 105, 116 >> >> ]),
                  timestamp_ms |-> 1700002000,
                  prev_event_digest |-> Some([ value |-> Repeat(0, 32) ]),
                  event_digest |-> Some([ value |-> Repeat(16, 32) ]),
                  attestation_sig |-> Some([ algorithm |-> << 101, 100, 50, 53, 53, 49, 57 >>,
                                             signer |-> << U8(1) >>,
                                             signature |-> << U8(2) >> ]),
                  epoch_id |-> 100 ] ],
      [ type |-> "SepEvent",
        msg |-> [ event_id |-> << 101, 118, 116, 45, 50 >>,
                  session_id |-> << 115, 101, 115, 115, 105, 111, 110, 45, 57, 48, 48, 48 >>,
                  event_type |-> 2,
                  object_ref |-> Some([ uri |-> << 100, 101, 99, 105, 115, 105, 111, 110, 58, 47, 47, 97, 112, 112, 114, 111, 118, 97, 108 >>,
                                        label |-> << 100, 101, 99, 105, 115, 105, 111, 110 >> ]),
                  reason_codes |-> Some([ codes |-> << << 112, 111, 108, 105, 99, 121 >> >> ]),
                  timestamp_ms |-> 1700002500,
                  prev_event_digest |-> Some([ value |-> Repeat(16, 32) ]),
                  event_digest |-> Some([ value |-> Repeat(32, 32) ]),
                  attestation_sig |-> Some([ algorithm |-> << 101, 100, 50, 53, 53, 49, 57 >>,
                                             signer |-> << U8(3) >>,
                                             signature |-> << U8(4) >> ]),
                  epoch_id |-> 100 ] ],
      [ type |-> "SepEvent",
        msg |-> [ event_id |-> << 101, 118, 116, 45, 51 >>,
                  session_id |-> << 115, 101, 115, 115, 105, 111, 110, 45, 57, 48, 48, 48 >>,
                  event_type |-> 3,
                  object_ref |-> Some([ uri |-> << 111, 117, 116, 99, 111, 109, 101, 58, 47, 47, 114, 101, 115, 117, 108, 116 >>,
                                        label |-> << 111, 117, 116, 99, 111, 109, 101 >> ]),
                  reason_codes |-> Some([ codes |-> << << 115, 117, 99, 99, 101, 115, 115 >> >> ]),
                  timestamp_ms |-> 1700003000,
                  prev_event_digest |-> Some([ value |-> Repeat(32, 32) ]),
                  event_digest |-> Some([ value |-> Repeat(48, 32) ]),
                  attestation_sig |-> Some([ algorithm |-> << 101, 100, 50, 53, 53, 49, 57 >>,
                                             signer |-> << U8(5) >>,
                                             signature |-> << U8(6) >> ]),
                  epoch_id |-> 101 ] ]
    >>

\* generate_vectors.rs, microcircuit_config_lc
microcircuit_config_lc ==
    [ type |-> "MicrocircuitConfigEvidence",
      msg |-> [ module |-> MicroModule.Lc, config_version |-> 1,
                config_digest |-> Some([ value |-> Repeat(16, 32) ]),
                created_at_ms |-> 1700123456,
                prev_config_digest |-> None,
                proof_receipt_ref |->
                    Some([ uri |->  \* "proof://microcircuit/config/receipt-1"
                      << 112, 114, 111, 111, 102, 58, 47, 47, 109, 105, 99, 114, 111, 99, 105, 114, 99, 117, 105, 116, 47, 99, 111, 110, 102, 105, 103, 47, 114, 101, 99, 101, 105, 112, 116, 45, 49 >>,
                  label |-> << 114, 101, 99, 101, 105, 112, 116 >> ]),
                attestation_sig |->
                    Some([ algorithm |-> << 101, 100, 50, 53, 53, 49, 57 >>,
                  signer |-> << U8(1), U8(2), U8(3), U8(4) >>,
                  signature |-> << U8(5), U8(6), U8(7), U8(8) >> ]),
                attestation_key_id |-> Some(<< 97, 116, 116, 101, 115, 116, 45, 107, 101, 121, 45, 49 >>) ] ]

\* generate_vectors.rs, microcircuit_config_sn
microcircuit_config_sn ==
    [ type |-> "MicrocircuitConfigEvidence",
      msg |-> [ module |-> MicroModule.Sn, config_version |-> 1,
                config_digest |-> Some([ value |-> Repeat(34, 32) ]),
                created_at_ms |-> 1700123999,
                prev_config_digest |-> Some([ value |-> Repeat(17, 32) ]),
                proof_receipt_ref |->
                    None,
                attestation_sig |->
                    None,
                attestation_key_id |-> None ] ]

\* generate_vectors.rs, microcircuit_config_hpa
microcircuit_config_hpa ==
    [ type |-> "MicrocircuitConfigEvidence",
      msg |-> [ module |-> MicroModule.Hpa, config_version |-> 1,
                config_digest |-> Some([ value |-> Repeat(51, 32) ]),
                created_at_ms |-> 1700124111,
                prev_config_digest |-> Some([ value |-> Repeat(34, 32) ]),
                proof_receipt_ref |->
                    Some([ uri |->  \* "proof://microcircuit/config/receipt-hpa-1"
                      << 112, 114, 111, 111, 102, 58, 47, 47, 109, 105, 99, 114, 111, 99, 105, 114, 99, 117, 105, 116, 47, 99, 111, 110, 102, 105, 103, 47, 114, 101, 99, 101, 105, 112, 116, 45, 104, 112, 97, 45, 49 >>,
                  label |-> << 114, 101, 99, 101, 105, 112, 116 >> ]),
                attestation_sig |->
                    None,
                attestation_key_id |-> Some(<< 97, 116, 116, 101, 115, 116, 45, 107, 101, 121, 45, 104, 112, 97, 45, 49 >>) ] ]

\* generate_mc_cfg_hpa_bin.rs, message
mc_cfg_hpa ==
    [ type |-> "MicrocircuitConfigEvidence",
      msg |-> [ module |-> MicroModule.Hpa, config_version |-> 1,
                config_digest |-> Some([ value |-> Repeat(68, 32) ]),
                created_at_ms |-> 1700125000,
                prev_config_digest |-> None,
                proof_receipt_ref |->
                    None,
                attestation_sig |->
                    None,
                attestation_key_id |-> None ] ]

\* generate_vectors.rs, main: the emit_fixture calls with their schema and domain
generate_vectors_calls ==
    <<
       \* ucf.v1.CanonicalIntent, domain = "ucf-core"
       [ name |-> "canonical_intent_query", message |-> [ type |-> "CanonicalIntent", msg |-> "canonical_intent" ],
         schema |-> << 117, 99, 102, 46, 118, 49, 46, 67, 97, 110, 111, 110, 105, 99, 97, 108, 73, 110, 116, 101, 110, 116 >>,
         domain |-> << 117, 99, 102, 45, 99, 111, 114, 101 >> ],
       \* ucf.v1.PolicyDecision, domain = "ucf-core"
       [ name |-> "policy_decision", message |-> [ type |-> "PolicyDecision", msg |-> "policy_decision" ],
         schema |-> << 117, 99, 102, 46, 118, 49, 46, 80, 111, 108, 105, 99, 121, 68, 101, 99, 105, 115, 105, 111, 110 >>,
         domain |-> << 117, 99, 102, 45, 99, 111, 114, 101 >> ],
       \* ucf.v1.PVGSReceipt, domain = "ucf-core"
       [ name |-> "pvgs_receipt", message |-> [ type |-> "PVGSReceipt", msg |-> "pvgs_receipt" ],
         schema |-> << 117, 99, 102, 46, 118, 49, 46, 80, 86, 71, 83, 82, 101, 99, 101, 105, 112, 116 >>,
         domain |-> << 117, 99, 102, 45, 99, 111, 114, 101 >> ],
       \* ucf.v1.AssetDigest, asset_morph_domain = "UCF:ASSET:MORPH"
       [ name |-> "asset_digest_morphology_v1", message |-> [ type |-> "AssetDigest", msg |-> "asset_digest_morphology" ],
         schema |-> << 117, 99, 102, 46, 118, 49, 46, 65, 115, 115, 101, 116, 68, 105, 103, 101, 115, 116 >>,
         domain |-> << 85, 67, 70, 58, 65, 83, 83, 69, 84, 58, 77, 79, 82, 80, 72 >> ],
       \* ucf.v1.AssetManifest, asset_manifest_domain = "UCF:ASSET:MANIFEST"
       [ name |-> "asset_manifest_v1", message |-> [ type |-> "AssetManifest", msg |-> "asset_manifest" ],
         schema |-> << 117, 99, 102, 46, 118, 49, 46, 65, 115, 115, 101, 116, 77, 97, 110, 105, 102, 101, 115, 116 >>,
         domain |-> << 85, 67, 70, 58, 65, 83, 83, 69, 84, 58, 77, 65, 78, 73, 70, 69, 83, 84 >> ],
       \* ucf.v1.MorphologySetPayload, asset_morph_domain = "UCF:ASSET:MORPH"
       [ name |-> "biophys_morphology_set_v1", message |-> [ type |-> "MorphologySetPayload", msg |-> "morphology_payload" ],
         schema |-> << 117, 99, 102, 46, 118, 49, 46, 77, 111, 114, 112, 104, 111, 108, 111, 103, 121, 83, 101, 116, 80, 97, 121, 108, 111, 97, 100 >>,
         domain |-> << 85, 67, 70, 58, 65, 83, 83, 69, 84, 58, 77, 79, 82, 80, 72 >> ],
       \* ucf.v1.ChannelParamsSetPayload, asset_channel_params_domain = "UCF:ASSET:CHANNEL_PARAMS"
       [ name |-> "biophys_channel_params_set_v1", message |-> [ type |-> "ChannelParamsSetPayload", msg |-> "channel_params_payload" ],
         schema |-> << 117, 99, 102, 46, 118, 49, 46, 67, 104, 97, 110, 110, 101, 108, 80, 97, 114, 97, 109, 115, 83, 101, 116, 80, 97, 121, 108, 111, 97, 100 >>,
         domain |-> << 85, 67, 70, 58, 65, 83, 83, 69, 84, 58, 67, 72, 65, 78, 78, 69, 76, 95, 80, 65, 82, 65, 77, 83 >> ],
       \* ucf.v1.SynapseParamsSetPayload, asset_syn_params_domain = "UCF:ASSET:SYN_PARAMS"
       [ name |-> "biophys_synapse_params_set_v1", message |-> [ type |-> "SynapseParamsSetPayload", msg |-> "synapse_params_payload" ],
         schema |-> << 117, 99, 102, 46, 118, 49, 46, 83, 121, 110, 97, 112, 115, 101, 80, 97, 114, 97, 109, 115, 83, 101, 116, 80, 97, 121, 108, 111, 97, 100 >>,
         domain |-> << 85, 67, 70, 58, 65, 83, 83, 69, 84, 58, 83, 89, 78, 95, 80, 65, 82, 65, 77, 83 >> ],
       \* ucf.v1.ConnectivityGraphPayload, asset_connectivity_domain = "UCF:ASSET:CONNECTIVITY"
       [ name |-> "biophys_connectivity_graph_v1", message |-> [ type |-> "ConnectivityGraphPayload", msg |-> "connectivity_payload" ],
         schema |-> << 117, 99, 102, 46, 118, 49, 46, 67, 111, 110, 110, 101, 99, 116, 105, 118, 105, 116, 121, 71, 114, 97, 112, 104, 80, 97, 121, 108, 111, 97, 100 >>,
         domain |-> << 85, 67, 70, 58, 65, 83, 83, 69, 84, 58, 67, 79, 78, 78, 69, 67, 84, 73, 86, 73, 84, 89 >> ],
       \* ucf.v1.SignalFrame, domain = "ucf-core"
       [ name |-> "signal_frame_short_window", message |-> [ type |-> "SignalFrame", msg |-> "signal_frame" ],
         schema |-> << 117, 99, 102, 46, 118, 49, 46, 83, 105, 103, 110, 97, 108, 70, 114, 97, 109, 101 >>,
         domain |-> << 117, 99, 102, 45, 99, 111, 114, 101 >> ],
       \* ucf.v1.ControlFrame, domain = "ucf-core"
       [ name |-> "control_frame_m1_overlays_on", message |-> [ type |-> "ControlFrame", msg |-> "control_frame" ],
         schema |-> << 117, 99, 102, 46, 118, 49, 46, 67, 111, 110, 116, 114, 111, 108, 70, 114, 97, 109, 101 >>,
         domain |-> << 117, 99, 102, 45, 99, 111, 114, 101 >> ],
       \* ucf.v1.ExperienceRecord, domain = "ucf-core"
       [ name |-> "experience_rt_perception", message |-> [ type |-> "ExperienceRecord", msg |-> "experience_rt_perception" ],
         schema |-> << 117, 99, 102, 46, 118, 49, 46, 69, 120, 112, 101, 114, 105, 101, 110, 99, 101, 82, 101, 99, 111, 114, 100 >>,
         domain |-> << 117, 99, 102, 45, 99, 111, 114, 101 >> ],
       \* ucf.v1.ExperienceRecord, domain = "ucf-core"
       [ name |-> "experience_rt_action_exec", message |-> [ type |-> "ExperienceRecord", msg |-> "experience_rt_action_exec" ],
         schema |-> << 117, 99, 102, 46, 118, 49, 46, 69, 120, 112, 101, 114, 105, 101, 110, 99, 101, 82, 101, 99, 111, 114, 100 >>,
         domain |-> << 117, 99, 102, 45, 99, 111, 114, 101 >> ],
       \* ucf.v1.ExperienceRecord, domain = "ucf-core"
       [ name |-> "experience_rt_output", message |-> [ type |-> "ExperienceRecord", msg |-> "experience_rt_output" ],
         schema |-> << 117, 99, 102, 46, 118, 49, 46, 69, 120, 112, 101, 114, 105, 101, 110, 99, 101, 82, 101, 99, 111, 114, 100 >>,
         domain |-> << 117, 99, 102, 45, 99, 111, 114, 101 >> ],
       \* ucf.v1.MicroMilestone, domain = "ucf-core"
       [ name |-> "micro_milestone_sealed", message |-> [ type |-> "MicroMilestone", msg |-> "micro_milestone" ],
         schema |-> << 117, 99, 102, 46, 118, 49, 46, 77, 105, 99, 114, 111, 77, 105, 108, 101, 115, 116, 111, 110, 101 >>,
         domain |-> << 117, 99, 102, 45, 99, 111, 114, 101 >> ],
       \* ucf.v1.MesoMilestone, domain = "ucf-core"
       [ name |-> "meso_milestone_stable", message |-> [ type |-> "MesoMilestone", msg |-> "meso_milestone" ],
         schema |-> << 117, 99, 102, 46, 118, 49, 46, 77, 101, 115, 111, 77, 105, 108, 101, 115, 116, 111, 110, 101 >>,
         domain |-> << 117, 99, 102, 45, 99, 111, 114, 101 >> ],
       \* ucf.v1.MacroMilestone, domain = "ucf-core"
       [ name |-> "macro_milestone_finalized", message |-> [ type |-> "MacroMilestone", msg |-> "macro_milestone" ],
         schema |-> << 117, 99, 102, 46, 118, 49, 46, 77, 97, 99, 114, 111, 77, 105, 108, 101, 115, 116, 111, 110, 101 >>,
         domain |-> << 117, 99, 102, 45, 99, 111, 114, 101 >> ],
       \* ucf.v1.ReplayPlan, domain = "ucf-core"
       [ name |-> "replay_plan_high_fidelity", message |-> [ type |-> "ReplayPlan", msg |-> "replay_plan" ],
         schema |-> << 117, 99, 102, 46, 118, 49, 46, 82, 101, 112, 108, 97, 121, 80, 108, 97, 110 >>,
         domain |-> << 117, 99, 102, 45, 99, 111, 114, 101 >> ],
       \* ucf.v1.ReplayPlan, domain = "ucf-core"
       [ name |-> "replay_plan_asset_manifest_ref", message |-> [ type |-> "ReplayPlan", msg |-> "replay_plan_asset_manifest" ],
         schema |-> << 117, 99, 102, 46, 118, 49, 46, 82, 101, 112, 108, 97, 121, 80, 108, 97, 110 >>,
         domain |-> << 117, 99, 102, 45, 99, 111, 114, 101 >> ],
       \* ucf.v1.ReplayRunEvidence, domain = "ucf-core"
       [ name |-> "replay_run_evidence", message |-> [ type |-> "ReplayRunEvidence", msg |-> "replay_run" ],
         schema |-> << 117, 99, 102, 46, 118, 49, 46, 82, 101, 112, 108, 97, 121, 82, 117, 110, 69, 118, 105, 100, 101, 110, 99, 101 >>,
         domain |-> << 117, 99, 102, 45, 99, 111, 114, 101 >> ],
       \* ucf.v1.ConsistencyFeedback, domain = "ucf-core"
       [ name |-> "consistency_feedback_low_flags", message |-> [ type |-> "ConsistencyFeedback", msg |-> "consistency_feedback" ],
         schema |-> << 117, 99, 102, 46, 118, 49, 46, 67, 111, 110, 115, 105, 115, 116, 101, 110, 99, 121, 70, 101, 101, 100, 98, 97, 99, 107 >>,
         domain |-> << 117, 99, 102, 45, 99, 111, 114, 101 >> ],
       \* ucf.v1.MicrocircuitConfigEvidence, microcircuit_domain = "UCF:HASH:MC_CONFIG"
       [ name |-> "microcircuit_config_lc_v1", message |-> microcircuit_config_lc,
         schema |-> << 117, 99, 102, 46, 118, 49, 46, 77, 105, 99, 114, 111, 99, 105, 114, 99, 117, 105, 116, 67, 111, 110, 102, 105, 103, 69, 118, 105, 100, 101, 110, 99, 101 >>,
         domain |-> << 85, 67, 70, 58, 72, 65, 83, 72, 58, 77, 67, 95, 67, 79, 78, 70, 73, 71 >> ],
       \* ucf.v1.MicrocircuitConfigEvidence, microcircuit_domain = "UCF:HASH:MC_CONFIG"
       [ name |-> "microcircuit_config_sn_v1", message |-> microcircuit_config_sn,
         schema |-> << 117, 99, 102, 46, 118, 49, 46, 77, 105, 99, 114, 111, 99, 105, 114, 99, 117, 105, 116, 67, 111, 110, 102, 105, 103, 69, 118, 105, 100, 101, 110, 99, 101 >>,
         domain |-> << 85, 67, 70, 58, 72, 65, 83, 72, 58, 77, 67, 95, 67, 79, 78, 70, 73, 71 >> ],
       \* ucf.v1.MicrocircuitConfigEvidence, microcircuit_domain = "UCF:HASH:MC_CONFIG"
       [ name |-> "microcircuit_config_hpa_v1", message |-> microcircuit_config_hpa,
         schema |-> << 117, 99, 102, 46, 118, 49, 46, 77, 105, 99, 114, 111, 99, 105, 114, 99, 117, 105, 116, 67, 111, 110, 102, 105, 103, 69, 118, 105, 100, 101, 110, 99, 101 >>,
         domain |-> << 85, 67, 70, 58, 72, 65, 83, 72, 58, 77, 67, 95, 67, 79, 78, 70, 73, 71 >> ],
       \* ucf.v1.ToolRegistryContainer, domain = "ucf-core"
       [ name |-> "tool_registry_container", message |-> [ type |-> "ToolRegistryContainer", msg |-> "registry_container" ],
         schema |-> << 117, 99, 102, 46, 118, 49, 46, 84, 111, 111, 108, 82, 101, 103, 105, 115, 116, 114, 121, 67, 111, 110, 116, 97, 105, 110, 101, 114 >>,
         domain |-> << 117, 99, 102, 45, 99, 111, 114, 101 >> ],
       \* ucf.v1.ToolOnboardingEvent, domain = "ucf-core"
       [ name |-> "tool_onboarding_event", message |-> [ type |-> "ToolOnboardingEvent", msg |-> "onboarding_event" ],
         schema |-> << 117, 99, 102, 46, 118, 49, 46, 84, 111, 111, 108, 79, 110, 98, 111, 97, 114, 100, 105, 110, 103, 69, 118, 101, 110, 116 >>,
         domain |-> << 117, 99, 102, 45, 99, 111, 114, 101 >> ],
       \* ucf.v1.ApprovalArtifactPackage, domain = "ucf-core"
       [ name |-> "approval_artifact_package", message |-> [ type |-> "ApprovalArtifactPackage", msg |-> "approval_artifact_package" ],
         schema |-> << 117, 99, 102, 46, 118, 49, 46, 65, 112, 112, 114, 111, 118, 97, 108, 65, 114, 116, 105, 102, 97, 99, 116, 80, 97, 99, 107, 97, 103, 101 >>,
         domain |-> << 117, 99, 102, 45, 99, 111, 114, 101 >> ],
       \* ucf.v1.ApprovalDecision, domain = "ucf-core"
       [ name |-> "approval_decision", message |-> [ type |-> "ApprovalDecision", msg |-> "approval_decision" ],
         schema |-> << 117, 99, 102, 46, 118, 49, 46, 65, 112, 112, 114, 111, 118, 97, 108, 68, 101, 99, 105, 115, 105, 111, 110 >>,
         domain |-> << 117, 99, 102, 45, 99, 111, 114, 101 >> ],
       \* ucf.v1.SepEvent, domain = "ucf-core"
       [ name |-> "sep_event_chain_1", message |-> sep_events[1],
         schema |-> << 117, 99, 102, 46, 118, 49, 46, 83, 101, 112, 69, 118, 101, 110, 116 >>,
         domain |-> << 117, 99, 102, 45, 99, 111, 114, 101 >> ],
       \* ucf.v1.SepEvent, domain = "ucf-core"
       [ name |-> "sep_event_chain_2", message |-> sep_events[2],
         schema |-> << 117, 99, 102, 46, 118, 49, 46, 83, 101, 112, 69, 118, 101, 110, 116 >>,
         domain |-> << 117, 99, 102, 45, 99, 111, 114, 101 >> ],
       \* ucf.v1.SepEvent, domain = "ucf-core"
       [ name |-> "sep_event_chain_3", message |-> sep_events[3],
         schema |-> << 117, 99, 102, 46, 118, 49, 46, 83, 101, 112, 69, 118, 101, 110, 116 >>,
         domain |-> << 117, 99, 102, 45, 99, 111, 114, 101 >> ],
       \* ucf.v1.SessionSeal, domain = "ucf-core"
       [ name |-> "session_seal", message |-> [ type |-> "SessionSeal", msg |-> "session_seal" ],
         schema |-> << 117, 99, 102, 46, 118, 49, 46, 83, 101, 115, 115, 105, 111, 110, 83, 101, 97, 108 >>,
         domain |-> << 117, 99, 102, 45, 99, 111, 114, 101 >> ],
       \* ucf.v1.CompletenessReport, domain = "ucf-core"
       [ name |-> "completeness_report", message |-> [ type |-> "CompletenessReport", msg |-> "completeness_report" ],
         schema |-> << 117, 99, 102, 46, 118, 49, 46, 67, 111, 109, 112, 108, 101, 116, 101, 110, 101, 115, 115, 82, 101, 112, 111, 114, 116 >>,
         domain |-> << 117, 99, 102, 45, 99, 111, 114, 101 >> ]
    >>

\* one run of a generator binary: its main
generate_vectors_main ==
    /\ testvectors' = EmitAll(testvectors, generate_vectors_calls)
    /\ UNCHANGED verdict
    /\ UNCHANGED not_fixture_vars

\* generate_new_fixtures.rs, main: write_fixture under DOMAIN = "ucf-core"
generate_new_fixtures_main ==
    /\ testvectors' =
           EmitAll(testvectors,
              << [ name |-> "reason_codes_basic", message |-> reason_codes,
                   schema |-> << 117, 99, 102, 46, 118, 49, 46, 82, 101, 97, 115, 111, 110, 67, 111, 100, 101, 115 >>,
                   domain |-> << 117, 99, 102, 45, 99, 111, 114, 101 >> ],
                 [ name |-> "ucf_envelope_policy_decision",
                   message |-> [ type |-> "UcfEnvelope", msg |-> "envelope" ],
                   schema |-> << 117, 99, 102, 46, 118, 49, 46, 85, 99, 102, 69, 110, 118, 101, 108, 111, 112, 101 >>,
                   domain |-> << 117, 99, 102, 45, 99, 111, 114, 101 >> ] >>)
    /\ UNCHANGED verdict
    /\ UNCHANGED not_fixture_vars

\* generate_frames.rs, main: emit_fixture under "ucf-core"
generate_frames_main ==
    /\ testvectors' =
           EmitAll(testvectors,
              << [ name |-> "signal_frame_short_window",
                   message |-> [ type |-> "SignalFrame", msg |-> "signal_frame" ],
                   schema |-> << 117, 99, 102, 46, 118, 49, 46, 83, 105, 103, 110, 97, 108, 70, 114, 97, 109, 101 >>,
                   domain |-> << 117, 99, 102, 45, 99, 111, 114, 101 >> ],
                 [ name |-> "control_frame_m1_overlays_on",
                   message |-> [ type |-> "ControlFrame", msg |-> "control_frame" ],
                   schema |-> << 117, 99, 102, 46, 118, 49, 46, 67, 111, 110, 116, 114, 111, 108, 70, 114, 97, 109, 101 >>,
                   domain |-> << 117, 99, 102, 45, 99, 111, 114, 101 >> ] >>)
    /\ UNCHANGED verdict
    /\ UNCHANGED not_fixture_vars

\* gen_experience_fixtures.rs, main: the loop over the three records, under
\* DOMAIN = "ucf-core" and SCHEMA = "ucf.v1.ExperienceRecord"; the files are
\* written without a trailing newline
RECURSIVE WriteExperience(_, _)
WriteExperience(fs, fixtures) ==
    IF Len(fixtures) = 0
    THEN fs
    ELSE LET bytes == EncodeRecord([ type |-> "ExperienceRecord", msg |-> Head(fixtures) ])
             digest == digest32(<< 117, 99, 102, 45, 99, 111, 114, 101 >>,
                                << 117, 99, 102, 46, 118, 49, 46, 69, 120, 112, 101, 114, 105, 101, 110, 99, 101, 82, 101, 99, 111, 114, 100 >>,
                                << 49 >>, bytes)
         IN  WriteExperience(WriteFiles(fs, Head(fixtures), "hex", hex_encode(bytes),
                                        hex_encode(digest)),
                             Tail(fixtures))

gen_experience_fixtures_main ==
    /\ testvectors' =
           WriteExperience(testvectors, << "experience_rt_perception", "experience_rt_action_exec",
                                  "experience_rt_output" >>)
    /\ UNCHANGED verdict
    /\ UNCHANGED not_fixture_vars

\* generate_mc_cfg_hpa_bin.rs, main: the raw bytes in mc_cfg_hpa.bin, the digest
\* under "UCF:HASH:MC_CONFIG" and "ucf.v1.MicrocircuitConfigEvidence"
generate_mc_cfg_hpa_bin_main ==
    /\ testvectors' =
           LET bytes == EncodeRecord(mc_cfg_hpa)
               digest == digest32(<< 85, 67, 70, 58, 72, 65, 83, 72, 58, 77, 67, 95, 67, 79, 78, 70, 73, 71 >>,
                                  << 117, 99, 102, 46, 118, 49, 46, 77, 105, 99, 114, 111, 99, 105, 114, 99, 117, 105, 116, 67, 111, 110, 102, 105, 103, 69, 118, 105, 100, 101, 110, 99, 101 >>,
                                  << 49 >>, bytes)
           IN  WriteFiles(testvectors, "mc_cfg_hpa", "bin", bytes, hex_encode(digest) \o << Ch(10) >>)
    /\ UNCHANGED verdict
    /\ UNCHANGED not_fixture_vars

\* tests/determinism.rs: the verify_case and verify_case_with_domain calls of the
\* case functions; record is the record the generators write under the name
FixtureCaseCalls ==
    <<
      [ name |-> "reason_codes_basic", type |-> "ReasonCodes", schema |-> SCHEMAS.REASON_CODES_SCHEMA,
        domain |-> UCF_CORE_DOMAIN, record |-> reason_codes ],
      [ name |-> "ucf_envelope_policy_decision", type |-> "UcfEnvelope", schema |-> SCHEMAS.UCF_ENVELOPE_SCHEMA,
        domain |-> UCF_CORE_DOMAIN, record |-> [ type |-> "UcfEnvelope", msg |-> "envelope" ] ],
      [ name |-> "canonical_intent_query", type |-> "CanonicalIntent", schema |-> SCHEMAS.INTENT_SCHEMA,
        domain |-> UCF_CORE_DOMAIN, record |-> [ type |-> "CanonicalIntent", msg |-> "canonical_intent" ] ],
      [ name |-> "policy_decision", type |-> "PolicyDecision", schema |-> SCHEMAS.POLICY_SCHEMA,
        domain |-> UCF_CORE_DOMAIN, record |-> [ type |-> "PolicyDecision", msg |-> "policy_decision" ] ],
      [ name |-> "pvgs_receipt", type |-> "PVGSReceipt", schema |-> SCHEMAS.PVGS_SCHEMA,
        domain |-> UCF_CORE_DOMAIN, record |-> [ type |-> "PVGSReceipt", msg |-> "pvgs_receipt" ] ],
      [ name |-> "signal_frame_short_window", type |-> "SignalFrame", schema |-> SCHEMAS.SIGNAL_FRAME_SCHEMA,
        domain |-> UCF_CORE_DOMAIN, record |-> [ type |-> "SignalFrame", msg |-> "signal_frame" ] ],
      [ name |-> "control_frame_m1_overlays_on", type |-> "ControlFrame", schema |-> SCHEMAS.CONTROL_FRAME_SCHEMA,
        domain |-> UCF_CORE_DOMAIN, record |-> [ type |-> "ControlFrame", msg |-> "control_frame" ] ],
      [ name |-> "experience_rt_perception", type |-> "ExperienceRecord", schema |-> SCHEMAS.EXPERIENCE_SCHEMA,
        domain |-> UCF_CORE_DOMAIN, record |-> [ type |-> "ExperienceRecord", msg |-> "experience_rt_perception" ] ],
      [ name |-> "experience_rt_action_exec", type |-> "ExperienceRecord", schema |-> SCHEMAS.EXPERIENCE_SCHEMA,
        domain |-> UCF_CORE_DOMAIN, record |-> [ type |-> "ExperienceRecord", msg |-> "experience_rt_action_exec" ] ],
      [ name |-> "experience_rt_output", type |-> "ExperienceRecord", schema |-> SCHEMAS.EXPERIENCE_SCHEMA,
        domain |-> UCF_CORE_DOMAIN, record |-> [ type |-> "ExperienceRecord", msg |-> "experience_rt_output" ] ],
      [ name |-> "micro_milestone_sealed", type |-> "MicroMilestone", schema |-> SCHEMAS.MICRO_MILESTONE_SCHEMA,
        domain |-> UCF_CORE_DOMAIN, record |-> [ type |-> "MicroMilestone", msg |-> "micro_milestone" ] ],
      [ name |-> "meso_milestone_stable", type |-> "MesoMilestone", schema |-> SCHEMAS.MESO_MILESTONE_SCHEMA,
        domain |-> UCF_CORE_DOMAIN, record |-> [ type |-> "MesoMilestone", msg |-> "meso_milestone" ] ],
      [ name |-> "macro_milestone_finalized", type |-> "MacroMilestone", schema |-> SCHEMAS.MACRO_MILESTONE_SCHEMA,
        domain |-> UCF_CORE_DOMAIN, record |-> [ type |-> "MacroMilestone", msg |-> "macro_milestone" ] ],
      [ name |-> "replay_plan_high_fidelity", type |-> "ReplayPlan", schema |-> SCHEMAS.REPLAY_PLAN_SCHEMA,
        domain |-> UCF_CORE_DOMAIN, record |-> [ type |-> "ReplayPlan", msg |-> "replay_plan" ] ],
      [ name |-> "replay_plan_asset_manifest_ref", type |-> "ReplayPlan", schema |-> SCHEMAS.REPLAY_PLAN_SCHEMA,
        domain |-> UCF_CORE_DOMAIN, record |-> [ type |-> "ReplayPlan", msg |-> "replay_plan_asset_manifest" ] ],
      [ name |-> "replay_run_evidence", type |-> "ReplayRunEvidence", schema |-> SCHEMAS.REPLAY_RUN_SCHEMA,
        domain |-> UCF_CORE_DOMAIN, record |-> [ type |-> "ReplayRunEvidence", msg |-> "replay_run" ] ],
      [ name |-> "consistency_feedback_low_flags", type |-> "ConsistencyFeedback", schema |-> SCHEMAS.CONSISTENCY_FEEDBACK_SCHEMA,
        domain |-> UCF_CORE_DOMAIN, record |-> [ type |-> "ConsistencyFeedback", msg |-> "consistency_feedback" ] ],
      [ name |-> "tool_registry_container", type |-> "ToolRegistryContainer", schema |-> SCHEMAS.TOOL_REGISTRY_SCHEMA,
        domain |-> UCF_CORE_DOMAIN, record |-> [ type |-> "ToolRegistryContainer", msg |-> "registry_container" ] ],
      [ name |-> "tool_onboarding_event", type |-> "ToolOnboardingEvent", schema |-> SCHEMAS.TOOL_ONBOARDING_SCHEMA,
        domain |-> UCF_CORE_DOMAIN, record |-> [ type |-> "ToolOnboardingEvent", msg |-> "onboarding_event" ] ],
      [ name |-> "approval_artifact_package", type |-> "ApprovalArtifactPackage", schema |-> SCHEMAS.APPROVAL_ARTIFACT_PACKAGE_SCHEMA,
        domain |-> UCF_CORE_DOMAIN, record |-> [ type |-> "ApprovalArtifactPackage", msg |-> "approval_artifact_package" ] ],
      [ name |-> "approval_decision", type |-> "ApprovalDecision", schema |-> SCHEMAS.APPROVAL_DECISION_SCHEMA,
        domain |-> UCF_CORE_DOMAIN, record |-> [ type |-> "ApprovalDecision", msg |-> "approval_decision" ] ],
      [ name |-> "session_seal", type |-> "SessionSeal", schema |-> SCHEMAS.SESSION_SEAL_SCHEMA,
        domain |-> UCF_CORE_DOMAIN, record |-> [ type |-> "SessionSeal", msg |-> "session_seal" ] ],
      [ name |-> "completeness_report", type |-> "CompletenessReport", schema |-> SCHEMAS.COMPLETENESS_REPORT_SCHEMA,
        domain |-> UCF_CORE_DOMAIN, record |-> [ type |-> "CompletenessReport", msg |-> "completeness_report" ] ],
      [ name |-> "asset_digest_morphology_v1", type |-> "AssetDigest", schema |-> SCHEMAS.ASSET_DIGEST_SCHEMA,
        domain |-> DOMAINS.ASSET_MORPHOLOGY_DOMAIN, record |-> [ type |-> "AssetDigest", msg |-> "asset_digest_morphology" ] ],
      [ name |-> "asset_manifest_v1", type |-> "AssetManifest", schema |-> SCHEMAS.ASSET_MANIFEST_SCHEMA,
        domain |-> DOMAINS.ASSET_MANIFEST_DOMAIN, record |-> [ type |-> "AssetManifest", msg |-> "asset_manifest" ] ],
      [ name |-> "biophys_morphology_set_v1", type |-> "MorphologySetPayload", schema |-> SCHEMAS.MORPHOLOGY_SET_SCHEMA,
        domain |-> DOMAINS.ASSET_MORPHOLOGY_DOMAIN, record |-> [ type |-> "MorphologySetPayload", msg |-> "morphology_payload" ] ],
      [ name |-> "biophys_channel_params_set_v1", type |-> "ChannelParamsSetPayload", schema |-> SCHEMAS.CHANNEL_PARAMS_SET_SCHEMA,
        domain |-> DOMAINS.ASSET_CHANNEL_PARAMS_DOMAIN, record |-> [ type |-> "ChannelParamsSetPayload", msg |-> "channel_params_payload" ] ],
      [ name |-> "biophys_synapse_params_set_v1", type |-> "SynapseParamsSetPayload", schema |-> SCHEMAS.SYNAPSE_PARAMS_SET_SCHEMA,
        domain |-> DOMAINS.ASSET_SYN_PARAMS_DOMAIN, record |-> [ type |-> "SynapseParamsSetPayload", msg |-> "synapse_params_payload" ] ],
      [ name |-> "biophys_connectivity_graph_v1", type |-> "ConnectivityGraphPayload", schema |-> SCHEMAS.CONNECTIVITY_GRAPH_SCHEMA,
        domain |-> DOMAINS.ASSET_CONNECTIVITY_DOMAIN, record |-> [ type |-> "ConnectivityGraphPayload", msg |-> "connectivity_payload" ] ],
      [ name |-> "microcircuit_config_lc_v1", type |-> "MicrocircuitConfigEvidence", schema |-> SCHEMAS.MICRO_CIRCUIT_SCHEMA,
        domain |-> DOMAINS.MICRO_CIRCUIT_DOMAIN, record |-> microcircuit_config_lc ],
      [ name |-> "microcircuit_config_sn_v1", type |-> "MicrocircuitConfigEvidence", schema |-> SCHEMAS.MICRO_CIRCUIT_SCHEMA,
        domain |-> DOMAINS.MICRO_CIRCUIT_DOMAIN, record |-> microcircuit_config_sn ],
      [ name |-> "microcircuit_config_hpa_v1", type |-> "MicrocircuitConfigEvidence", schema |-> SCHEMAS.MICRO_CIRCUIT_SCHEMA,
        domain |-> DOMAINS.MICRO_CIRCUIT_DOMAIN, record |-> microcircuit_config_hpa ],
      [ name |-> "sep_event_chain_1", type |-> "SepEvent", schema |-> SCHEMAS.SEP_EVENT_SCHEMA,
        domain |-> UCF_CORE_DOMAIN, record |-> sep_events[1] ],
      [ name |-> "sep_event_chain_2", type |-> "SepEvent", schema |-> SCHEMAS.SEP_EVENT_SCHEMA,
        domain |-> UCF_CORE_DOMAIN, record |-> sep_events[2] ],
      [ name |-> "sep_event_chain_3", type |-> "SepEvent", schema |-> SCHEMAS.SEP_EVENT_SCHEMA,
        domain |-> UCF_CORE_DOMAIN, record |-> sep_events[3] ]
    >>

\* the files of the fixtures
Paths ==
    ({ FixtureCaseCalls[i].name : i \in 1..Len(FixtureCaseCalls) } \cup { "mc_cfg_hpa" })
        \X { "hex", "bin", "digest" }

\* load_fixture (extension "hex") and load_binary_fixture (extension "bin"):
\* [ok, bytes, digest] or [ok, error]
load_fixture(fs, name, extension) ==
    IF fs[<< name, extension >>] = None \/ fs[<< name, "digest" >>] = None
    THEN [ ok |-> FALSE, error |-> "reading" ]
    ELSE LET body == IF extension = "bin"
                     THEN [ ok |-> TRUE, bytes |-> fs[<< name, extension >>][1] ]
                     ELSE hex_decode(trim(fs[<< name, extension >>][1]))
             digest == hex_decode(trim(fs[<< name, "digest" >>][1]))
         IN  IF ~body.ok THEN [ ok |-> FALSE, error |-> "decoding fixture hex bytes" ]
             ELSE IF ~digest.ok THEN [ ok |-> FALSE, error |-> "decoding digest hex" ]
             ELSE IF ByteLen(digest.bytes) # 32
             THEN [ ok |-> FALSE, error |-> "digest must be 32 bytes" ]
             ELSE [ ok |-> TRUE, bytes |-> body.bytes, digest |-> digest.bytes ]

\* the three assertions on a loaded fixture: the first that fails, or "ok"
CheckFixture(fixture, type, schema, domain, expected) ==
    IF ~fixture.ok THEN fixture.error
    ELSE LET dec == DecodeRecord(type, fixture.bytes)
         IN  IF ~dec.ok THEN "decode"
             ELSE LET encoded == EncodeRecord([ type |-> type, msg |-> dec.msg ])
                  IN  IF fixture.bytes # encoded
                      THEN "canonical bytes should be stable"
                      ELSE IF fixture.digest # digest32(domain, schema, VERSION, encoded)
                      THEN "digest should match stored fixture"
                      ELSE IF encoded # EncodeRecord(expected)
                      THEN "constructed and fixture differ"
                      ELSE "ok"

verify_case_with_domain(fs, name, type, schema, domain, expected) ==
    CheckFixture(load_fixture(fs, name, "hex"), type, schema, domain, expected)

(* The fixture registry of the determinism test and the schema files. *)

\* build.rs, main: the schema files compiled into the crate
protos ==
    << "proto/ucf/v1/common.proto",
       "proto/ucf/v1/envelope.proto",
       "proto/ucf/v1/canonical.proto",
       "proto/ucf/v1/tooling.proto",
       "proto/ucf/v1/human.proto",
       "proto/ucf/v1/policy.proto",
       "proto/ucf/v1/pvgs.proto",
       "proto/ucf/v1/assets.proto",
       "proto/ucf/v1/biophys_assets.proto",
       "proto/ucf/v1/frames.proto",
       "proto/ucf/v1/experience.proto",
       "proto/ucf/v1/milestones.proto",
       "proto/ucf/v1/geist.proto",
       "proto/ucf/v1/sep.proto",
       "proto/ucf/v1/microcircuit.proto",
       "proto/ucf/v1/replay_run.proto",
       "proto/ucf/v1/proposal.proto",
       "proto/ucf/v1/activation.proto",
       "proto/ucf/v1/trace.proto" >>

\* tests/determinism.rs: the schema files the registry test asks coverage for
PROTO_FILES ==
    << "proto/ucf/v1/common.proto",
       "proto/ucf/v1/envelope.proto",
       "proto/ucf/v1/canonical.proto",
       "proto/ucf/v1/tooling.proto",
       "proto/ucf/v1/human.proto",
       "proto/ucf/v1/policy.proto",
       "proto/ucf/v1/pvgs.proto",
       "proto/ucf/v1/assets.proto",
       "proto/ucf/v1/biophys_assets.proto",
       "proto/ucf/v1/frames.proto",
       "proto/ucf/v1/experience.proto",
       "proto/ucf/v1/milestones.proto",
       "proto/ucf/v1/geist.proto",
       "proto/ucf/v1/sep.proto",
       "proto/ucf/v1/microcircuit.proto",
       "proto/ucf/v1/replay_run.proto" >>

\* FIXTURE_CASES: name, the schema files named, and the fixtures the verify
\* function of the case checks, in its order
FIXTURE_CASES ==
    <<
      [ name |-> "approval_artifact_package",
        proto_files |-> << "proto/ucf/v1/human.proto", "proto/ucf/v1/common.proto" >>,
        verify |-> << "approval_artifact_package" >> ],
      [ name |-> "approval_decision",
        proto_files |-> << "proto/ucf/v1/human.proto", "proto/ucf/v1/common.proto" >>,
        verify |-> << "approval_decision" >> ],
      [ name |-> "asset_digest_morphology_v1",
        proto_files |-> << "proto/ucf/v1/assets.proto", "proto/ucf/v1/common.proto" >>,
        verify |-> << "asset_digest_morphology_v1" >> ],
      [ name |-> "asset_manifest_v1",
        proto_files |-> << "proto/ucf/v1/assets.proto", "proto/ucf/v1/common.proto" >>,
        verify |-> << "asset_manifest_v1" >> ],
      [ name |-> "biophys_channel_params_set_v1",
        proto_files |-> << "proto/ucf/v1/biophys_assets.proto", "proto/ucf/v1/common.proto" >>,
        verify |-> << "biophys_channel_params_set_v1" >> ],
      [ name |-> "biophys_connectivity_graph_v1",
        proto_files |-> << "proto/ucf/v1/biophys_assets.proto", "proto/ucf/v1/common.proto" >>,
        verify |-> << "biophys_connectivity_graph_v1" >> ],
      [ name |-> "biophys_morphology_set_v1",
        proto_files |-> << "proto/ucf/v1/biophys_assets.proto", "proto/ucf/v1/common.proto" >>,
        verify |-> << "biophys_morphology_set_v1" >> ],
      [ name |-> "biophys_synapse_params_set_v1",
        proto_files |-> << "proto/ucf/v1/biophys_assets.proto", "proto/ucf/v1/common.proto" >>,
        verify |-> << "biophys_synapse_params_set_v1" >> ],
      [ name |-> "canonical_intent_query",
        proto_files |-> << "proto/ucf/v1/canonical.proto", "proto/ucf/v1/common.proto" >>,
        verify |-> << "canonical_intent_query" >> ],
      [ name |-> "completeness_report",
        proto_files |-> << "proto/ucf/v1/sep.proto", "proto/ucf/v1/common.proto" >>,
        verify |-> << "completeness_report" >> ],
      [ name |-> "consistency_feedback_low_flags",
        proto_files |-> << "proto/ucf/v1/geist.proto", "proto/ucf/v1/common.proto" >>,
        verify |-> << "consistency_feedback_low_flags" >> ],
      [ name |-> "control_frame_m1_overlays_on",
        proto_files |-> << "proto/ucf/v1/frames.proto", "proto/ucf/v1/common.proto" >>,
        verify |-> << "control_frame_m1_overlays_on" >> ],
      [ name |-> "experience_rt_action_exec",
        proto_files |-> << "proto/ucf/v1/experience.proto", "proto/ucf/v1/common.proto" >>,
        verify |-> << "experience_rt_action_exec" >> ],
      [ name |-> "experience_rt_output",
        proto_files |-> << "proto/ucf/v1/experience.proto", "proto/ucf/v1/common.proto" >>,
        verify |-> << "experience_rt_output" >> ],
      [ name |-> "experience_rt_perception",
        proto_files |-> << "proto/ucf/v1/experience.proto", "proto/ucf/v1/common.proto" >>,
        verify |-> << "experience_rt_perception" >> ],
      [ name |-> "macro_milestone_finalized",
        proto_files |-> << "proto/ucf/v1/milestones.proto", "proto/ucf/v1/common.proto" >>,
        verify |-> << "macro_milestone_finalized" >> ],
      [ name |-> "meso_milestone_stable",
        proto_files |-> << "proto/ucf/v1/milestones.proto", "proto/ucf/v1/common.proto" >>,
        verify |-> << "meso_milestone_stable" >> ],
      [ name |-> "micro_milestone_sealed",
        proto_files |-> << "proto/ucf/v1/milestones.proto", "proto/ucf/v1/common.proto" >>,
        verify |-> << "micro_milestone_sealed" >> ],
      [ name |-> "microcircuit_config_hpa_v1",
        proto_files |-> << "proto/ucf/v1/microcircuit.proto", "proto/ucf/v1/common.proto" >>,
        verify |-> << "microcircuit_config_hpa_v1" >> ],
      [ name |-> "microcircuit_config_lc_v1",
        proto_files |-> << "proto/ucf/v1/microcircuit.proto", "proto/ucf/v1/common.proto" >>,
        verify |-> << "microcircuit_config_lc_v1" >> ],
      [ name |-> "microcircuit_config_sn_v1",
        proto_files |-> << "proto/ucf/v1/microcircuit.proto", "proto/ucf/v1/common.proto" >>,
        verify |-> << "microcircuit_config_sn_v1" >> ],
      [ name |-> "policy_decision",
        proto_files |-> << "proto/ucf/v1/policy.proto", "proto/ucf/v1/common.proto" >>,
        verify |-> << "policy_decision" >> ],
      [ name |-> "pvgs_receipt",
        proto_files |-> << "proto/ucf/v1/pvgs.proto", "proto/ucf/v1/common.proto" >>,
        verify |-> << "pvgs_receipt" >> ],
      [ name |-> "reason_codes_basic",
        proto_files |-> << "proto/ucf/v1/common.proto" >>,
        verify |-> << "reason_codes_basic" >> ],
      [ name |-> "replay_plan_asset_manifest_ref",
        proto_files |-> << "proto/ucf/v1/milestones.proto", "proto/ucf/v1/common.proto" >>,
        verify |-> << "replay_plan_asset_manifest_ref" >> ],
      [ name |-> "replay_plan_high_fidelity",
        proto_files |-> << "proto/ucf/v1/milestones.proto", "proto/ucf/v1/common.proto" >>,
        verify |-> << "replay_plan_high_fidelity" >> ],
      [ name |-> "replay_run_evidence",
        proto_files |-> << "proto/ucf/v1/replay_run.proto", "proto/ucf/v1/common.proto" >>,
        verify |-> << "replay_run_evidence" >> ],
      [ name |-> "sep_event_chain_1",
        proto_files |-> << "proto/ucf/v1/sep.proto", "proto/ucf/v1/common.proto" >>,
        verify |-> << "sep_event_chain_1", "sep_event_chain_2", "sep_event_chain_3" >> ],
      [ name |-> "session_seal",
        proto_files |-> << "proto/ucf/v1/sep.proto", "proto/ucf/v1/common.proto" >>,
        verify |-> << "session_seal" >> ],
      [ name |-> "signal_frame_short_window",
        proto_files |-> << "proto/ucf/v1/frames.proto", "proto/ucf/v1/common.proto" >>,
        verify |-> << "signal_frame_short_window" >> ],
      [ name |-> "tool_onboarding_event",
        proto_files |-> << "proto/ucf/v1/tooling.proto", "proto/ucf/v1/common.proto" >>,
        verify |-> << "tool_onboarding_event" >> ],
      [ name |-> "tool_registry_container",
        proto_files |-> << "proto/ucf/v1/tooling.proto", "proto/ucf/v1/common.proto" >>,
        verify |-> << "tool_registry_container" >> ],
      [ name |-> "ucf_envelope_policy_decision",
        proto_files |-> << "proto/ucf/v1/envelope.proto", "proto/ucf/v1/common.proto" >>,
        verify |-> << "ucf_envelope_policy_decision" >> ]
    >>

\* fixture_registry_is_complete: the names are in sorted order as written, so
\* the first assertion passes; then every case's verify function in registry
\* order, the first failure ending the test; then the coverage of PROTO_FILES
fixture_registry_is_complete ==
    LET row(n) == FixtureCaseCalls[CHOOSE i \in 1..Len(FixtureCaseCalls) :
                                       FixtureCaseCalls[i].name = n]
        calls == { c \in (1..Len(FIXTURE_CASES)) \X (1..3) : c[2] <= Len(FIXTURE_CASES[c[1]].verify) }
        before(c, d) == c[1] < d[1] \/ (c[1] = d[1] /\ c[2] <= d[2])
        covered_protos ==
            UNION { { FIXTURE_CASES[k].proto_files[j] : j \in 1..Len(FIXTURE_CASES[k].proto_files) } :
                        k \in 1..Len(FIXTURE_CASES) }
    IN  /\ \E results \in { [ c \in calls |->
                               LET n == FIXTURE_CASES[c[1]].verify[c[2]]
                               IN  verify_case_with_domain(testvectors, n, row(n).type, row(n).schema,
                                                           row(n).domain, row(n).record) ] } :
             \E failed \in { { c \in calls : results[c] # "ok" } } :
               verdict' =
                   [ name |-> "fixture_registry_is_complete",
                     result |-> IF failed # { }
                                THEN results[CHOOSE c \in failed : \A d \in failed : before(c, d)]
                                ELSE IF \E i \in 1..Len(PROTO_FILES) :
                                            PROTO_FILES[i] \notin covered_protos
                                THEN "missing fixture coverage"
                                ELSE "ok" ]
        /\ UNCHANGED testvectors
        /\ UNCHANGED not_fixture_vars

\* the record a case function constructs: the literal for the schemas of the
\* catalog; for the others an input, the generator's record or another one
ExpectedRecords(case) ==
    IF case.type \in DOMAIN Schema
    THEN { case.record }
    ELSE { case.record, [ type |-> case.type, msg |-> "another" ] }

\* one case function of the determinism test
VerifyCase(case, expected) ==
    /\ verdict' = [ name |-> case.name,
                    result |-> verify_case_with_domain(testvectors, case.name, case.type,
                                                       case.schema, case.domain, expected) ]
    /\ UNCHANGED testvectors
    /\ UNCHANGED not_fixture_vars

microcircuit_config_hpa_bin_case ==
    /\ verdict' = [ name |-> "mc_cfg_hpa",
                    result |-> CheckFixture(load_fixture(testvectors, "mc_cfg_hpa", "bin"),
                                            "MicrocircuitConfigEvidence",
                                            SCHEMAS.MICRO_CIRCUIT_SCHEMA, DOMAINS.MICRO_CIRCUIT_DOMAIN,
                                            mc_cfg_hpa) ]
    /\ UNCHANGED testvectors
    /\ UNCHANGED not_fixture_vars

InitFixtures ==
    /\ testvectors = [ path \in Paths |-> None ]
    /\ verdict = None
    /\ IdleDigest /\ IdleReceipt /\ IdleChain /\ IdleVrf /\ IdleWire

NextFixtures ==
    \/ generate_vectors_main
    \/ generate_new_fixtures_main
    \/ generate_frames_main
    \/ gen_experience_fixtures_main
    \/ generate_mc_cfg_hpa_bin_main
    \/ \E i \in 1..Len(FixtureCaseCalls) :
           \E expected \in ExpectedRecords(FixtureCaseCalls[i]) :
               VerifyCase(FixtureCaseCalls[i], expected)
    \/ microcircuit_config_hpa_bin_case
    \/ fixture_registry_is_complete

SpecFixtures == InitFixtures /\ [][NextFixtures]_vars

\* the digest the test recomputes for a stored fixture, under its own triple
RecomputedDigest(fixture, type, schema, domain) ==
    digest32(domain, schema, VERSION,
             EncodeRecord([ type |-> type, msg |-> DecodeRecord(type, fixture.bytes).msg ]))

\* C6: for every fixture name, the digest a generator stored equals
\* digest32(domain, schema, "1", bytes) as the determinism test recomputes it
\* under its own (domain, schema, version) for that name; no case ever fails
\* its digest assertion.
C6_DigestStability ==
    /\ verdict # None => verdict.result # "digest should match stored fixture"
    /\ \A i \in 1..Len(FixtureCaseCalls) :
           LET case == FixtureCaseCalls[i]
               fixture == load_fixture(testvectors, case.name, "hex")
           IN  fixture.ok =>
                   fixture.digest = RecomputedDigest(fixture, case.type, case.schema, case.domain)
    /\ LET fixture == load_fixture(testvectors, "mc_cfg_hpa", "bin")
       IN  fixture.ok =>
               fixture.digest = RecomputedDigest(fixture, "MicrocircuitConfigEvidence",
                                                 SCHEMAS.MICRO_CIRCUIT_SCHEMA,
                                                 DOMAINS.MICRO_CIRCUIT_DOMAIN)

C6_Witness ==
    /\ verdict = [ name |-> "asset_manifest_v1", result |-> "ok" ]
    /\ testvectors[<< "mc_cfg_hpa", "bin" >>] # None
    /\ testvectors[<< "experience_rt_output", "hex" >>] # None
    /\ load_fixture(testvectors, "microcircuit_config_lc_v1", "hex").ok

(* VRF engine: determinism, input sensitivity, epoch locality.  vrf is the call
   just made and vrf_last an earlier call on the same engine: the one before
   it, or any call before that. *)

\* the five arguments of an eval_record_vrf call
VrfInputs(v) ==
    << v.prev_record_digest, v.record_digest, v.charter_digest, v.profile_digest, v.epoch_id >>

\* C11: two eval_record_vrf calls on the same engine with identical
\* (prev_record_digest, record_digest, charter_digest, profile_digest, epoch_id)
\* return the same 32-byte tag, whatever calls were made before or between them.
C11_VrfDeterminism ==
    (vrf # None /\ vrf_last # None /\ VrfInputs(vrf) = VrfInputs(vrf_last)) =>
        /\ vrf.tag = vrf_last.tag
        /\ ByteLen(vrf.tag) = 32
        /\ recomputed # None => recomputed = vrf_last.tag

C11_Witness ==
    /\ vrf # None /\ vrf_last # None /\ recomputed # None
    /\ VrfInputs(vrf) = VrfInputs(vrf_last)
    /\ VrfInputs(vrf) = << GenesisDigest, Repeat(1, 32), CharterDigest, Repeat(2, 32), 42 >>
    /\ vrf.tag = vrf_last.tag

\* C12: two input tuples that differ in any component are signed as different
\* messages and get different tags, although charter_digest has no length
\* prefix; in particular a changed record_digest changes the tag.
C12_InputSensitivity ==
    (vrf # None /\ vrf_last # None /\ VrfInputs(vrf) # VrfInputs(vrf_last)) =>
        /\ SignedMessage(vrf) # SignedMessage(vrf_last)
        /\ vrf.tag # vrf_last.tag

C12_Witness ==
    /\ vrf # None /\ vrf_last # None
    /\ vrf.charter_digest = << >> /\ vrf_last.charter_digest = << 99 >>
    /\ vrf.profile_digest = Repeat(99, 32) /\ vrf_last.profile_digest = Repeat(99, 32)
    /\ vrf.record_digest # vrf_last.record_digest
    /\ vrf.prev_record_digest = vrf_last.prev_record_digest
    /\ vrf.epoch_id = vrf_last.epoch_id
    /\ vrf.tag # vrf_last.tag

\* C13: two calls that differ only in epoch_id get different tags: the epoch is
\* in the signed message as its last 8 bytes, little-endian.
C13_EpochLocality ==
    (/\ vrf # None /\ vrf_last # None
     /\ vrf.epoch_id # vrf_last.epoch_id
     /\ [ vrf EXCEPT !.epoch_id = 0, !.tag = << >> ]
            = [ vrf_last EXCEPT !.epoch_id = 0, !.tag = << >> ]) =>
        LET a == SignedMessage(vrf)
            b == SignedMessage(vrf_last)
        IN  /\ vrf.tag # vrf_last.tag
            /\ Len(a) = Len(b)
            /\ SubSeq(a, 1, Len(a) - 8) = SubSeq(b, 1, Len(b) - 8)
            /\ SubSeq(a, Len(a) - 7, Len(a)) = to_le_bytes(vrf.epoch_id)
            /\ SubSeq(b, Len(b) - 7, Len(b)) = to_le_bytes(vrf_last.epoch_id)
            /\ SubSeq(a, Len(a) - 7, Len(a)) # SubSeq(b, Len(b) - 7, Len(b))

C13_Witness ==
    /\ vrf # None /\ vrf_last # None
    /\ vrf.epoch_id = 256 /\ vrf_last.epoch_id = 42
    /\ [ vrf EXCEPT !.epoch_id = 0, !.tag = << >> ]
           = [ vrf_last EXCEPT !.epoch_id = 0, !.tag = << >> ]
    /\ vrf.charter_digest = CharterDigest
    /\ vrf.tag # vrf_last.tag

\* C28: the engine new_dev(epoch_id) builds depends on epoch_id alone: its seed
\* is BLAKE3("UCF:VRF:DEV" || le_u64(epoch_id)), current_epoch() is epoch_id,
\* key_id is "TEMPORARY_VRF:" and the hex of the first 8 bytes of the public
\* key; a second engine built for the same epoch has the same key and returns
\* the same tags, an engine built for another epoch has another key.
C28_DevKeyDerivation ==
    LET epoch_id == current_epoch(engine)
        seed == engine.signing_key
        again == new_dev(epoch_id)
    IN  /\ epoch_id \in DevEpochs
        /\ Len(seed) = 1 /\ seed[1][1] = "blake3"
        /\ SubSeq(Preimage(seed), 1, 11) = VRF_DEV_SEED_LABEL
        /\ Len(Preimage(seed)) = 19
        /\ LeValue(SubSeq(Preimage(seed), 12, 19)) = epoch_id
        /\ engine.current.vrf_sk = seed
        /\ vrf_public_key(engine) = VerifyingKey(seed)
        /\ SubSeq(engine.current.key_id, 1, 14)
               = << Ch(84), Ch(69), Ch(77), Ch(80), Ch(79), Ch(82), Ch(65), Ch(82), Ch(89),
                    Ch(95), Ch(86), Ch(82), Ch(70), Ch(58) >>
        /\ SubSeq(engine.current.key_id, 15, Len(engine.current.key_id))
               = << << "hex", << "slice", vrf_public_key(engine)[1], 8 >> >> >>
        /\ again = engine
        /\ vrf # None =>
               vrf.tag = eval_record_vrf(again, vrf.prev_record_digest, vrf.record_digest,
                                         vrf.charter_digest, vrf.profile_digest, vrf.epoch_id)
        /\ \A other \in DevEpochs \ { epoch_id } :
               /\ new_dev(other).signing_key # seed
               /\ vrf_public_key(new_dev(other)) # vrf_public_key(engine)
               /\ new_dev(other).current.key_id # engine.current.key_id
               /\ vrf # None =>
                      vrf.tag # eval_record_vrf(new_dev(other), vrf.prev_record_digest,
                                                vrf.record_digest, vrf.charter_digest,
                                                vrf.profile_digest, vrf.epoch_id)

C28_Witness ==
    /\ current_epoch(engine) = 9
    /\ vrf # None /\ vrf.epoch_id = 42 /\ vrf.charter_digest = << 99 >>
    /\ vrf.tag = eval_record_vrf(new_dev(9), vrf.prev_record_digest, vrf.record_digest,
                                 vrf.charter_digest, vrf.profile_digest, vrf.epoch_id)
    /\ LeValue(SubSeq(Preimage(engine.signing_key), 12, 19)) = 9

(* Proof receipts: closure over the VRF engine, the receipt digest, epochs,
   tags and statuses.  receipt is the call just made on the issuer and
   receipt_last the call before it. *)

\* C14: the vrf_digest of the receipt returned by issue_proof_receipt equals
\* eval_record_vrf(prev_record_digest, record_digest_from_components(
\* verified_fields_digest, prev_record_digest, commit_id), charter_digest,
\* profile_digest, epoch_id) recomputed on the issuer's engine from the same inputs.
C14_ReceiptClosure ==
    receipt # None =>
        /\ receipt.out.vrf_digest # None
        /\ VrfTag(receipt) =
               eval_record_vrf(
                   engine,
                   receipt.inputs.prev_record_digest,
                   record_digest_from_components(
                       receipt.inputs.verified_fields_digest,
                       receipt.inputs.prev_record_digest,
                       receipt.inputs.commit_id),
                   receipt.inputs.charter_digest,
                   receipt.inputs.profile_digest,
                   receipt.inputs.epoch_id)
        /\ Preimage(VrfTag(receipt))[1][2][1][3] =
               build_message(
                   receipt.inputs.prev_record_digest,
                   receipt.record_digest,
                   receipt.inputs.charter_digest,
                   receipt.inputs.profile_digest,
                   receipt.inputs.epoch_id)

C14_Witness ==
    /\ receipt # None
    /\ receipt.inputs.verified_fields_digest = Repeat(3, 32)
    /\ receipt.inputs.prev_record_digest = Repeat(0, 32)
    /\ receipt.inputs.commit_id = Bytes(<< 99, 99 >>)
    /\ receipt.inputs.epoch_id = current_epoch(engine)
    /\ VrfTag(receipt) =
           eval_record_vrf(engine, Repeat(0, 32),
                           record_digest_from_components(
                               Repeat(3, 32), Repeat(0, 32), Bytes(<< 99, 99 >>)),
                           CharterDigest, Repeat(2, 32), IssuerEpoch)

\* C15: the receipt_digest a receipt carries is determined by the
\* verified_fields_digest it was issued for: two receipts issued for the same
\* verified_fields_digest carry the same receipt_digest.
C15_ReceiptDigestDetermined ==
    (/\ receipt # None /\ receipt_last # None
     /\ receipt.inputs.verified_fields_digest = receipt_last.inputs.verified_fields_digest) =>
        receipt.out.receipt_digest = receipt_last.out.receipt_digest

\* C16: a receipt is issued only when the epoch of the engine's key equals the
\* epoch_id given for the record.
C16_EpochConsistency ==
    receipt # None => receipt.inputs.epoch_id = current_epoch(engine)

\* C17: the vrf_digest of every issued receipt, and the tag eval_record_vrf
\* returns for the same inputs, is 32 bytes that are not all zero.
C17_NonzeroTag ==
    receipt # None =>
        LET direct == eval_record_vrf(
                          engine,
                          receipt.inputs.prev_record_digest,
                          receipt.record_digest,
                          receipt.inputs.charter_digest,
                          receipt.inputs.profile_digest,
                          receipt.inputs.epoch_id)
        IN  /\ receipt.out.vrf_digest # None
            /\ ByteLen(VrfTag(receipt)) = 32
            /\ VrfTag(receipt) # Repeat(0, 32)
            /\ ByteLen(direct) = 32
            /\ direct # Repeat(0, 32)

C17_Witness ==
    /\ receipt # None
    /\ receipt.inputs.status = "Accepted"
    /\ receipt.inputs.verified_fields_digest = Repeat(3, 32)
    /\ receipt.inputs.prev_record_digest = Repeat(0, 32)
    /\ receipt.inputs.commit_id = Bytes(<< 99 >>)
    /\ VrfTag(receipt) # Repeat(0, 32)
    /\ VrfTag(receipt)[1][1] = "blake3"

\* C18: a receipt is issued for every status and carries that status and a
\* vrf_digest; two receipts over the same chain inputs carry the same vrf_digest
\* whatever their status, receipt_digest and validator signature are.
C18_RejectedFirstClass ==
    receipt # None =>
        /\ receipt.out.status = ReceiptStatus[receipt.inputs.status]
        /\ receipt.inputs.status = "Rejected" => receipt.out.status # ReceiptStatus.Accepted
        /\ receipt.out.vrf_digest # None
        /\ receipt.out.receipt_digest = Some([ value |-> receipt.inputs.receipt_digest ])
        /\ receipt.out.validator = Some(receipt.inputs.validator)
        /\ (/\ receipt_last # None
            /\ [ receipt.inputs EXCEPT !.status = "Accepted", !.receipt_digest = << >>,
                                       !.validator = sample_signature ]
                   = [ receipt_last.inputs EXCEPT !.status = "Accepted", !.receipt_digest = << >>,
                                                  !.validator = sample_signature ]) =>
               receipt.out.vrf_digest = receipt_last.out.vrf_digest

C18_Witness ==
    /\ receipt # None /\ receipt_last # None
    /\ receipt.inputs.status = "Rejected" /\ receipt_last.inputs.status = "Accepted"
    /\ receipt.out.status = ReceiptStatus.Rejected
    /\ receipt.inputs.receipt_digest # receipt_last.inputs.receipt_digest
    /\ receipt.inputs.validator # receipt_last.inputs.validator
    /\ [ receipt.inputs EXCEPT !.status = "Accepted", !.receipt_digest = << >>,
                               !.validator = sample_signature ]
           = [ receipt_last.inputs EXCEPT !.status = "Accepted", !.receipt_digest = << >>,
                                          !.validator = sample_signature ]
    /\ receipt.out.vrf_digest # None
    /\ VrfTag(receipt) = VrfTag(receipt_last)

\* C26: two writers issue receipts for different records (another
\* verified_fields_digest or commit_id) that name the same prev_record_digest,
\* in either order: both get a receipt, the two record digests and the two VRF
\* tags differ, and each result is what the call gives on its own.
C26_NoArbitration ==
    (/\ receipt # None /\ receipt_last # None
     /\ receipt.inputs.prev_record_digest = receipt_last.inputs.prev_record_digest
     /\ \/ receipt.inputs.verified_fields_digest # receipt_last.inputs.verified_fields_digest
        \/ receipt.inputs.commit_id # receipt_last.inputs.commit_id) =>
        /\ receipt.out.vrf_digest # None /\ receipt_last.out.vrf_digest # None
        /\ receipt.record_digest # receipt_last.record_digest
        /\ VrfTag(receipt) # VrfTag(receipt_last)
        /\ receipt.out =
               issue_proof_receipt(ProofReceiptIssuer_new(new_dev(IssuerEpoch)), receipt.inputs)
        /\ receipt_last.out =
               issue_proof_receipt(ProofReceiptIssuer_new(new_dev(IssuerEpoch)), receipt_last.inputs)
        /\ receipt.record_digest =
               record_digest_from_components(receipt.inputs.verified_fields_digest,
                                             receipt.inputs.prev_record_digest,
                                             receipt.inputs.commit_id)

C26_Witness ==
    /\ receipt # None /\ receipt_last # None
    /\ receipt.inputs.prev_record_digest = Repeat(3, 32)
    /\ receipt_last.inputs.prev_record_digest = Repeat(3, 32)
    /\ receipt.inputs.verified_fields_digest = Repeat(4, 32)
    /\ receipt_last.inputs.verified_fields_digest = Repeat(3, 32)
    /\ receipt.inputs.commit_id = receipt_last.inputs.commit_id
    /\ receipt.record_digest # receipt_last.record_digest
    /\ VrfTag(receipt) # VrfTag(receipt_last)

(* Set-typed repeated fields: what the generators write, and what the encoder
   does with the order it is given. *)

\* C19: in every fixture record each set-typed repeated field is in ascending
\* byte order on the wire: the codes of every written ReasonCodes fixture are
\* sorted.
C19_SetSortedness ==
    \A i \in 1..Len(FixtureCaseCalls) :
        LET case == FixtureCaseCalls[i]
            fixture == load_fixture(testvectors, case.name, "hex")
        IN  (case.type = "ReasonCodes" /\ fixture.ok) =>
                /\ DecodeRecord(case.type, fixture.bytes).ok
                /\ IsSorted(DecodeRecord(case.type, fixture.bytes).msg.codes)

\* C20: canonical_bytes writes the elements of a repeated field in the order
\* given: the decoded record has the caller's order, and a record with the same
\* codes in another order encodes to other bytes and gets another digest.
C20_EncoderKeepsOrder ==
    (wire # None /\ message.type = "ReasonCodes") =>
        /\ (decoded # None) =>
               decoded[1].ok /\ decoded[1].msg.codes = message.msg.codes
        /\ \A other \in ReasonCodesSamples :
               LET a == message.msg.codes
                   b == other.msg.codes
                   n == Len(a)
               IN  (/\ Len(b) = n /\ b # a
                    /\ \E f \in [ 1..n -> 1..n ] :
                           /\ \A i, j \in 1..n : f[i] = f[j] => i = j
                           /\ \A i \in 1..n : b[i] = a[f[i]]) =>
                       /\ canonical_bytes(other.type, other.msg) # wire[1]
                       /\ digest32(UCF_CORE_DOMAIN, SCHEMAS.REASON_CODES_SCHEMA, VERSION,
                                   canonical_bytes(other.type, other.msg))
                              # digest32(UCF_CORE_DOMAIN, SCHEMAS.REASON_CODES_SCHEMA, VERSION,
                                         wire[1])

C20_Witness ==
    /\ decoded # None
    /\ message = [ type |-> "ReasonCodes", msg |-> [ codes |-> << << 98, 97 >>, << 97 >> >> ] ]
    /\ decoded[1].msg.codes = << << 98, 97 >>, << 97 >> >>
    /\ ~IsSorted(message.msg.codes)
    /\ canonical_bytes("ReasonCodes", [ codes |-> << << 97 >>, << 98, 97 >> >> ]) # wire[1]

(* Canonical encoder: default elision, presence, unknown fields. *)

\* C21: a scalar field without optional presence is on the wire exactly when
\* its value is not the default; a field with optional presence is on the wire
\* exactly when it is set, also when it is set to the default; decoding gives
\* back the record with the same presence.
C21_DefaultElision ==
    (wire # None /\ message.type = "MicrocircuitConfigEvidence") =>
        LET bs == wire[1]
            tags[pos \in 1..(Len(bs) + 1)] ==
                IF pos > Len(bs)
                THEN { }
                ELSE LET key == decode_varint(bs, pos)
                         s == skip_field(key.value % 8, bs, key.next)
                     IN  { key.value \div 8 } \cup tags[s.next]
        IN  /\ \A i \in 1..Len(Schema[message.type]) :
                   LET fd == Schema[message.type][i]
                       v == message.msg[fd.name]
                   IN  /\ fd.card = "plain" => (fd.num \in tags[1] <=> ~IsDefault(fd, v))
                       /\ fd.card = "optional" => (fd.num \in tags[1] <=> v # None)
            /\ decoded # None => (decoded[1].ok /\ decoded[1].msg = message.msg)

C21_Witness ==
    /\ decoded # None /\ decoded[1].ok
    /\ message.type = "MicrocircuitConfigEvidence"
    /\ message.msg.module = 0 /\ message.msg.created_at_ms = 0
    /\ message.msg.attestation_key_id = Some(<< >>)
    /\ message.msg.prev_config_digest = None
    /\ message.msg.config_digest = None
    /\ message.msg.proof_receipt_ref = None /\ message.msg.attestation_sig = None
    /\ wire[1] = << U8(16), U8(1), U8(66), U8(0) >>
    /\ decoded[1].msg.attestation_key_id = Some(<< >>)

(* An intermediate consumer: the bytes it is handed were written by a producer
   whose schema has one more field (number 15, a varint or a string) after the
   fields of the consumer's schema; it decodes them and encodes the record again. *)

\* the bytes read from the producer
Receive(unknown) ==
    /\ wire = None /\ decoded = None
    /\ wire' = << canonical_bytes(message.type, message.msg) \o unknown >>
    /\ UNCHANGED << message, decoded, reencoded >>
    /\ UNCHANGED not_wire_vars

NextForward ==
    \/ \E unknown \in { << U8(120), U8(1) >>, << U8(122), U8(1), U8(97) >> } : Receive(unknown)
    \/ Decode
    \/ ReEncode

SpecForward == InitWire /\ [][NextForward]_vars

\* C22: decoding bytes that contain a field unknown to the schema and encoding
\* the decoded record again gives back the input bytes, the unknown field
\* included.
C22_UnknownFieldsPreserved ==
    reencoded # None => reencoded = wire

(* Fixture registry *)

\* C23: every schema file compiled into the crate is listed in proto_files of
\* at least one registry entry, and the registry test does not pass while one
\* is not.
C23_FixtureCoverage ==
    LET uncovered ==
            { i \in 1..Len(protos) :
                  \A k \in 1..Len(FIXTURE_CASES) :
                      \A j \in 1..Len(FIXTURE_CASES[k].proto_files) :
                          FIXTURE_CASES[k].proto_files[j] # protos[i] }
    IN  /\ uncovered = { }
        /\ (verdict # None /\ verdict.name = "fixture_registry_is_complete"
                /\ uncovered # { }) =>
               verdict.result # "ok"

\* C24: every <name>.hex and <name>.digest file a generator has written is
\* lowercase hex text followed by one newline.
C24_SideCarFormat ==
    \A path \in Paths :
        (path[2] \in { "hex", "digest" } /\ testvectors[path] # None) =>
            LET body == testvectors[path][1]
                n == Len(body)
            IN  /\ n >= 1
                /\ body[n][1] = "ch" /\ body[n][2] = 10
                /\ \A i \in 1..(n - 1) :
                       \/ body[i][1] = "hex"
                       \/ body[i][1] = "ch" /\ body[i][2] \in (48..57) \cup (97..102)

(* SEP event chain fixtures *)

ThreadCall(t, op, inputs) ==
    /\ threads[t].pc = "idle"
    /\ threads' = [ threads EXCEPT ![t] =
                      [ pc |-> "called", op |-> op, inputs |-> inputs,
                        message |-> None, signature |-> None, out |-> None ] ]
    /\ UNCHANGED << engine, vrf, vrf_last, recomputed >>
    /\ UNCHANGED not_vrf_vars

ThreadStep_shared_buffer(t) ==
    /\ UNCHANGED << engine, vrf, vrf_last, recomputed >>
    /\ UNCHANGED not_vrf_vars
    /\ \/ /\ threads[t].pc = "called"
          /\ threads' = [ threads EXCEPT ![t].pc = "built",
                ![t].message =
                    build_message(
                        threads[t].inputs.prev_record_digest,
                        IF threads[t].op = "issue_proof_receipt"
                        THEN record_digest_from_components(
                                 threads[t].inputs.verified_fields_digest,
                                 threads[t].inputs.prev_record_digest,
                                 threads[t].inputs.commit_id)
                        ELSE threads[t].inputs.record_digest,
                        threads[t].inputs.charter_digest,
                        threads[t].inputs.profile_digest,
                        threads[t].inputs.epoch_id) ]
       \/ /\ threads[t].pc = "built"
          /\ \E u \in DOMAIN threads :
                 /\ threads[u].message # None
                 /\ threads' = [ threads EXCEPT ![t].pc = "signed",
                       ![t].signature = Sign(engine.signing_key, threads[u].message) ]
       \/ /\ threads[t].pc = "signed"
          /\ threads' = [ threads EXCEPT ![t].pc = "returned",
                ![t].out = digest_signature(threads[t].signature) ]

\* one step of a call in progress: build_message, sign, digest_signature
ThreadStep(t) ==
    /\ UNCHANGED << engine, vrf, vrf_last, recomputed >>
    /\ UNCHANGED not_vrf_vars
    /\ \/ /\ threads[t].pc = "called"
          /\ threads' = [ threads EXCEPT ![t].pc = "built",
                ![t].message =
                    build_message(
                        threads[t].inputs.prev_record_digest,
                        IF threads[t].op = "issue_proof_receipt"
                        THEN record_digest_from_components(
                                 threads[t].inputs.verified_fields_digest,
                                 threads[t].inputs.prev_record_digest,
                                 threads[t].inputs.commit_id)
                        ELSE threads[t].inputs.record_digest,
                        threads[t].inputs.charter_digest,
                        threads[t].inputs.profile_digest,
                        threads[t].inputs.epoch_id) ]
       \/ /\ threads[t].pc = "built"
          /\ threads' = [ threads EXCEPT ![t].pc = "signed",
                ![t].signature = Sign(engine.signing_key, threads[t].message) ]
       \/ /\ threads[t].pc = "signed"
          /\ threads' = [ threads EXCEPT ![t].pc = "returned",
                ![t].out = digest_signature(threads[t].signature) ]

\* two threads hold a reference to the engine of an issuer
InitThreads ==
    /\ IdleDigest /\ IdleReceipt /\ IdleChain /\ IdleWire /\ IdleFixtures
    /\ engine = new_dev(IssuerEpoch) /\ vrf = None /\ vrf_last = None /\ recomputed = None
    /\ threads = [ t \in { 1, 2 } |->
                     [ pc |-> "idle", op |-> "", inputs |-> None,
                       message |-> None, signature |-> None, out |-> None ] ]

NextThreads ==
    \/ \E t \in { 1, 2 } :
           \E rec \in RecordDigests, epoch \in EpochIds :
               ThreadCall(t, "eval_record_vrf",
                          [ prev_record_digest |-> Repeat(0, 32), record_digest |-> rec,
                            charter_digest |-> CharterDigest, profile_digest |-> Repeat(2, 32),
                            epoch_id |-> epoch ])
    \/ \E t \in { 1, 2 } :
           \E inputs \in { i \in ReceiptInputs : Len(i.commit_id) = 1 } :
               ThreadCall(t, "issue_proof_receipt", inputs)
    \/ \E t \in { 1, 2 } : ThreadStep(t)

SpecThreads == InitThreads /\ [][NextThreads]_vars

\* C25: whatever the interleaving, a call that has returned has produced the tag
\* the same call returns when made alone on the engine, and the engine's key
\* material and epoch are what they were at construction.
C25_ThreadsShareEngine ==
    /\ engine = new_dev(IssuerEpoch)
    /\ \A t \in { 1, 2 } :
           threads[t].pc = "returned" =>
               IF threads[t].op = "issue_proof_receipt"
               THEN threads[t].out =
                        VrfTag([ out |-> issue_proof_receipt(ProofReceiptIssuer_new(new_dev(IssuerEpoch)),
                                                             threads[t].inputs) ])
               ELSE threads[t].out =
                        eval_record_vrf(new_dev(IssuerEpoch),
                                        threads[t].inputs.prev_record_digest,
                                        threads[t].inputs.record_digest,
                                        threads[t].inputs.charter_digest,
                                        threads[t].inputs.profile_digest,
                                        threads[t].inputs.epoch_id)

C25_Witness ==
    /\ threads[1].pc = "returned" /\ threads[2].pc = "returned"
    /\ threads[1].op = "eval_record_vrf" /\ threads[2].op = "issue_proof_receipt"
    /\ threads[1].out # threads[2].out
    /\ engine = new_dev(IssuerEpoch)

\* C29: when the verification of a fixture fails on one of its three
\* assertions, the failure names the fixture: the text of the failure is one
\* that the verification of no other fixture can end with. (The text is the
\* assertion's message; verdict.name records which case function ran and is
\* not part of what the test prints.)
C29_FailureNamesFixture ==
    (/\ verdict # None
     /\ verdict.result \in { "canonical bytes should be stable",
                             "digest should match stored fixture",
                             "constructed and fixture differ" })
        => \A i \in 1..Len(FixtureCaseCalls) :
               LET case == FixtureCaseCalls[i]
               IN  case.name # verdict.name =>
                       \A expected \in ExpectedRecords(case) :
                           verify_case_with_domain(testvectors, case.name, case.type, case.schema,
                                                   case.domain, expected) # verdict.result

\* the fixture names that more than one generator writes
SharedFixtureNames ==
    { "experience_rt_perception", "experience_rt_action_exec", "experience_rt_output",
      "signal_frame_short_window", "control_frame_m1_overlays_on" }

====
